---------------------------- MODULE Spec2Model ----------------------------
(***************************************************************************)
(* Model of the animation state engine of MrBeamLedStrips                  *)
(* (mrbeam_ledstrips/state_animations.py, class LEDs).                     *)
(*                                                                         *)
(* A command string such as 'red:3' is represented by the list of its      *)
(* colon-separated segments, <<"red", "3">>, i.e. by the value of          *)
(* str.split(':').  The empty string is <<"">>.  Python's None is the      *)
(* empty tuple for command-valued fields.                                  *)
(*                                                                         *)
(* Two threads run the code: "client" (the socket listener / a test, which *)
(* calls change_state, rollback and stop) and "loop" (LEDs.loop).  Every   *)
(* method is cut into steps at its accesses to the shared fields, so that  *)
(* the interleavings the interpreter allows are interleavings of the model.*)
(***************************************************************************)
EXTENDS Integers, Sequences, FiniteSets, TLC

\* ------------------------------------------------------------------------
\* Program constants
\* ------------------------------------------------------------------------

\* COMMANDS: command id -> list of accepted aliases (the first is primary)
COMMANDS ==
  [ UNKNOWN                    |-> <<"unknown">>,
    DEBUG_STOP                 |-> <<"DebugStop">>,
    ON                         |-> <<"on", "all_on">>,
    OFF                        |-> <<"off", "all_off">>,
    ROLLBACK                   |-> <<"rollback">>,
    IGNORE_NEXT_COMMAND        |-> <<"ignore_next_command">>,
    IGNORE_STOP                |-> <<"ignore_stop">>,
    LISTENING                  |-> <<"listening", "Listening", "_listening", "Startup">>,
    LISTENING_COLOR            |-> <<"listening_color">>,
    LISTENING_NET              |-> <<"listening_net", "listening_network">>,
    LISTENING_AP               |-> <<"listening_ap">>,
    LISTENING_AP_AND_NET       |-> <<"listening_ap_and_net", "listening_net_and_ap">>,
    LISTENING_FINDMRBEAM       |-> <<"listening_findmrbeam", "listening_find", "listening_findmymrbeam">>,
    CLIENT_OPENED              |-> <<"ClientOpened">>,
    CLIENT_CLOSED              |-> <<"ClientClosed">>,
    ERROR                      |-> <<"Error">>,
    SHUTDOWN                   |-> <<"Shutdown">>,
    SHUTDOWN_PREPARE           |-> <<"ShutdownPrepare">>,
    SHUTDOWN_PREPARE_CANCEL    |-> <<"ShutdownPrepareCancel">>,
    PRINT_STARTED              |-> <<"PrintStarted">>,
    PRINT_DONE                 |-> <<"PrintDone">>,
    PRINT_CANCELLED            |-> <<"PrintCancelled">>,
    PRINT_PAUSED               |-> <<"PrintPaused">>,
    PRINT_PAUSED_TIMEOUT       |-> <<"PrintPausedTimeout">>,
    PRINT_PAUSED_TIMEOUT_BLOCK |-> <<"PrintPausedTimeoutBlock">>,
    BUTTON_PRESS_REJECT        |-> <<"ButtonPressReject">>,
    PRINT_RESUMED              |-> <<"PrintResumed">>,
    PROGRESS                   |-> <<"Progress", "progress">>,
    JOB_FINISHED               |-> <<"JobFinished", "job_finished">>,
    PAUSE                      |-> <<"Pause", "pause">>,
    READY_TO_PRINT             |-> <<"ReadyToPrint">>,
    READY_TO_PRINT_CANCEL      |-> <<"ReadyToPrintCancel">>,
    SLICING_STARTED            |-> <<"SlicingStarted">>,
    SLICING_DONE               |-> <<"SlicingDone">>,
    SLICING_CANCELLED          |-> <<"SlicingCancelled">>,
    SLICING_FAILED             |-> <<"SlicingFailed">>,
    SLICING_PROGRESS           |-> <<"SlicingProgress", "slicing_progress">>,
    SETTINGS_UPDATED           |-> <<"SettingsUpdated">>,
    LASER_JOB_DONE             |-> <<"LaserJobDone">>,
    LASER_JOB_CANCELLED        |-> <<"LaserJobCancelled">>,
    LASER_JOB_FAILED           |-> <<"LaserJobFailed">>,
    PNG_ANIMATION              |-> <<"png">>,
    LENS_CALIBRATION           |-> <<"lens_calibration">>,
    WHITE                      |-> <<"white", "all_white">>,
    RED                        |-> <<"red", "all_red">>,
    GREEN                      |-> <<"green", "all_green">>,
    BLUE                       |-> <<"blue", "all_blue">>,
    YELLOW                     |-> <<"yellow", "all_yellow">>,
    ORANGE                     |-> <<"orange", "all_orange">>,
    FLASH_WHITE                |-> <<"flash_white">>,
    FLASH_RED                  |-> <<"flash_red">>,
    FLASH_GREEN                |-> <<"flash_green">>,
    FLASH_BLUE                 |-> <<"flash_blue">>,
    FLASH_YELLOW               |-> <<"flash_yellow">>,
    FLASH_ORANGE               |-> <<"flash_orange">>,
    BLINK_WHITE                |-> <<"blink_white">>,
    BLINK_RED                  |-> <<"blink_red">>,
    BLINK_GREEN                |-> <<"blink_green">>,
    BLINK_BLUE                 |-> <<"blink_blue">>,
    BLINK_YELLOW               |-> <<"blink_yellow">>,
    BLINK_ORANGE               |-> <<"blink_orange">>,
    CUSTOM_COLOR               |-> <<"color">>,
    FLASH_CUSTOM_COLOR         |-> <<"flash_color">>,
    BLINK_CUSTOM_COLOR         |-> <<"blink_color", "Upload", "upload">> ]

\* COMMANDS_REQ_ARG: the ids of the commands which require arguments
COMMANDS_REQ_ARG ==
  { "CUSTOM_COLOR", "FLASH_CUSTOM_COLOR", "BLINK_CUSTOM_COLOR", "PNG_ANIMATION",
    "PROGRESS", "LISTENING_COLOR", "SLICING_PROGRESS", "DEBUG_STOP" }

\* Python's None, for a field that otherwise holds a command string
None == << >>

\* `token in COMMANDS[key]`
InList(token, list) == \E i \in DOMAIN list : list[i] = token

\* `string in COMMANDS[key]` for a whole command string, given by its segments
StrIn(cmd, list) == Len(cmd) = 1 /\ InList(cmd[1], list)

\* DEFAULT_STATE = COMMANDS['LISTENING'][0]
DEFAULT_STATE == << COMMANDS.LISTENING[1] >>

\* MAX_HISTORY: the number of previous LED commands to keep track of
MAX_HISTORY == 10

\* DEFAULT_FPS
DEFAULT_FPS == 1

\* get_config: the default of led_brigthness
LED_BRIGHTNESS == 255

\* get_config: the default of led_count; the LEDs are numbered from 0
LED_COUNT == 46

Leds == 0..(LED_COUNT - 1)

\* the four registers of seven LEDs on the edges and the LEDs inside
LEDS_RIGHT_BACK  == << 0, 1, 2, 3, 4, 5, 6 >>
LEDS_RIGHT_FRONT == << 7, 8, 9, 10, 11, 12, 13 >>
LEDS_LEFT_FRONT  == << 32, 33, 34, 35, 36, 37, 38 >>
LEDS_LEFT_BACK   == << 39, 40, 41, 42, 43, 44, 45 >>
OUTSIDE_LEDS == << LEDS_RIGHT_FRONT, LEDS_LEFT_FRONT, LEDS_RIGHT_BACK, LEDS_LEFT_BACK >>
LEDS_INSIDE == 14..31

\* a Python integer of any size as the pair (hi, lo): hi * 65536 + lo with
\* lo in 0..65535, so that hi is the integer shifted right by 16 bits
Word(hi, lo) == [hi |-> hi, lo |-> lo]

\* SETTINGS: the names by which set_setting knows each setting
SETTINGS ==
  [ FPS               |-> << "fps" >>,
    SPREAD_SPECTRUM   |-> << "spread_spectrum" >>,
    BRIGHTNESS        |-> << "brightness", "bright", "b" >>,
    INSIDE_BRIGHTNESS |-> << "inside_brightness", "ib" >>,
    EDGE_BRIGHTNESS   |-> << "edge_brightness", "eb" >> ]

\* what a call of set_setting gave: the kind is "OK", "ERROR" or "PARSE" for
\* the three strings it returns and the name of the exception for one that
\* escapes; val is the value in the OK string
Reply(kind, setting, params, val) ==
  [kind |-> kind, setting |-> setting, params |-> params, val |-> val]

\* set_setting has not been called
NoReply == Reply("none", "", << >>, 0)

\* a call fn(args) of a helper and the value it returned
Eval(fn, args, val) == [fn |-> fn, args |-> args, val |-> val]
NoEval == Eval("", << >>, 0)

\* ------------------------------------------------------------------------
\* Bounds of the model
\* ------------------------------------------------------------------------

\* rollback() is called with steps in 1..MaxSteps
MaxSteps == 12

\* the configured frames per second are in 1..MaxFps
MaxFps == 3

\* the render loop counts frames up to MaxFrame
MaxFrame == 4

\* the client makes at most MaxCalls calls while the loop runs
MaxCalls == 3

\* the client makes at most MaxSends calls when the threads interleave freely
MaxSends == 2

\* the render loop counts frames up to MaxLongFrame where one command is
\* followed over many frames
MaxLongFrame == 15

\* the render loop counts frames up to MaxTransientFrame where a state that
\* is left after some frames is followed to its end
MaxTransientFrame == 54

\* the frames for which _breath_factor is evaluated on its own
MaxBreathFrame == 24

Threads == {"client", "loop"}

Free == "free"


\* ------------------------------------------------------------------------
\* State
\* ------------------------------------------------------------------------

VARIABLES
  state,                \* LEDs.state: the current command string
  past_states,          \* LEDs.past_states: deque([], MAX_HISTORY)
  ignore_next_command,  \* LEDs.ignore_next_command: None or the latch
  frame,                \* LEDs.frame
  frame_set,            \* whether the attribute LEDs.frame exists yet
  running,              \* LEDs.running
  last_interior,        \* LEDs._last_interior is not None
  fps,                  \* LEDs.fps
  lock,                 \* LEDs.lock: Free or the thread holding it
  pc,                   \* pc[t]: where thread t is in the code
  nu_state,             \* nu_state[t]: argument of t's change_state call
  old_state,            \* old_state[t]: local of change_state / of rollback
  res,                  \* res[t]: what t's last change_state call returned
  steps,                \* steps[t]: pops that t's rollback call still has to do
  data,                 \* local `data` of loop()
  frame_read,           \* value of self.frame loaded by `self.frame += 1`
  pre,                  \* history variable: the engine state when the client's call began
  pending,              \* history variable: the last command accepted from the client, not yet read by the loop
  my_states,            \* history variable: the states added by the test, in order
  rolled,               \* history variable: the steps of the rollbacks of the test, in order
  ncalls,               \* history variable: number of client calls so far
  last_kind,            \* history variable: kind of result of the client's previous change_state
  iter,                 \* history variable: the engine fields as they were when the loop's iteration began
  stopped,              \* history variable: stop() has been called
  brightness,           \* LEDs.brightness: the global brightness pushed with the buffer
  inside_brightness,    \* LEDs.inside_brightness
  edge_brightness,      \* LEDs.edge_brightness
  update_required,      \* LEDs.update_required: the buffer differs from what was pushed
  pixels,               \* LEDs.strip: the colour stored for every LED
  job_progress,         \* LEDs.job_progress
  setting_res,          \* what the last call of set_setting returned or raised
  handed,               \* the colours handed to _set_color by the last call on the strip or the last frame
  pushed,               \* whether the last call on the strip or the last frame pushed the buffer to the hardware
  evaluated             \* the last call of a module-level or static helper: its name, arguments and value

engine == << state, past_states, ignore_next_command, frame, frame_set,
             running, last_interior, fps, lock >>
locals == << pc, nu_state, old_state, res, steps, data, frame_read >>
history == << pending, my_states, rolled, ncalls, last_kind >>
observed == << iter, stopped >>
ghosts == << pre, history, observed >>
device == << brightness, inside_brightness, edge_brightness, update_required,
             pixels, job_progress >>
report == << setting_res, handed, pushed, evaluated >>
vars   == << engine, locals, ghosts, device, report >>

\* what change_state returns: "<kind> {state}   # {old} -> {nu}"
Result(kind, st, old, nu) == [kind |-> kind, state |-> st, old |-> old, nu |-> nu]

NoResult == Result("none", None, None, None)

\* the call the client makes and the engine fields as they are when it begins
Snapshot(call, nu, k) ==
  [ call |-> call, nu |-> nu, k |-> k,
    state |-> state, past_states |-> past_states, frame |-> frame,
    frame_set |-> frame_set, ignore_next_command |-> ignore_next_command,
    last_interior |-> last_interior, read |-> FALSE ]

\* no call of the client is under way
NoCall ==
  [ call |-> "none", nu |-> None, k |-> 0,
    state |-> None, past_states |-> << >>, frame |-> 0,
    frame_set |-> FALSE, ignore_next_command |-> None,
    last_interior |-> FALSE, read |-> FALSE ]

\* the engine fields as they are when an iteration of the loop begins; reset
\* records that self.frame was set to 0 during the iteration
AtTop ==
  [ active |-> TRUE, state |-> state, past_states |-> past_states,
    frame |-> frame, last_interior |-> last_interior, reset |-> FALSE,
    ignore_next_command |-> ignore_next_command ]

\* no iteration of the loop is under way
NoIter ==
  [ active |-> FALSE, state |-> None, past_states |-> << >>,
    frame |-> 0, last_interior |-> FALSE, reset |-> FALSE,
    ignore_next_command |-> None ]

\* LEDs.__init__ without the fps setting (the frame attribute is first
\* assigned by change_state or loop)
Constructed ==
  /\ state = DEFAULT_STATE
  /\ past_states = << >>
  /\ ignore_next_command = None
  /\ frame = 0
  /\ frame_set = FALSE
  /\ running = FALSE
  /\ last_interior = FALSE
  /\ lock = Free
  /\ pc = [t \in Threads |-> IF t = "loop" THEN "init" ELSE "idle"]
  /\ nu_state = [t \in Threads |-> None]
  /\ old_state = [t \in Threads |-> None]
  /\ res = [t \in Threads |-> NoResult]
  /\ steps = [t \in Threads |-> 0]
  /\ data = None
  /\ frame_read = 0
  /\ pre = NoCall
  /\ pending = None
  /\ my_states = << >>
  /\ rolled = << >>
  /\ ncalls = 0
  /\ last_kind = "none"
  /\ iter = NoIter
  /\ stopped = FALSE
  /\ brightness = LED_BRIGHTNESS
  /\ inside_brightness = 255
  /\ edge_brightness = 255
  /\ update_required = FALSE
  /\ pixels = [i \in Leds |-> Word(0, 0)]
  /\ job_progress = "0"
  /\ setting_res = NoReply
  /\ handed = {}
  /\ pushed = "no"
  /\ evaluated = NoEval

\* LEDs.__init__ with the frames_per_second of the configurations used
Init == Constructed /\ fps \in 1..MaxFps

\* where a thread continues when the method it called returns
AfterCall(t) == IF t = "loop" THEN "inc" ELSE "done"

Goto(t, label) == pc' = [pc EXCEPT ![t] = label]

\* ------------------------------------------------------------------------
\* LEDs.change_state(nu_state), executed by thread t
\* ------------------------------------------------------------------------

\* a variant of DequeAppend for a deque made without maxlen
DequeAppendUnbounded(dq, x, maxlen) == Append(dq, x)

\* deque.append on a deque with maxlen: a full deque drops its oldest entry
DequeAppend(dq, x, maxlen) ==
  IF Len(dq) >= maxlen THEN Append(Tail(dq), x) ELSE Append(dq, x)

\* `with self.lock:` -- blocks until the lock is free
CsLock(t) ==
  /\ pc[t] = "cs_lock"
  /\ lock = Free
  /\ lock' = t
  /\ Goto(t, "cs_ignore")
  /\ UNCHANGED << state, past_states, ignore_next_command, frame, frame_set,
                  running, last_interior, fps >>
  /\ UNCHANGED << nu_state, old_state, res, steps, data, frame_read >>
  /\ UNCHANGED << device, report >>

\* what the ignore branch returns: format(old=self.state, nu=self.state, state=nu_state)
IgnoredResult(t) == Result("IGNORED", nu_state[t], state, state)

\* a variant of CsIgnore which leaves the latch set
CsIgnoreSticky(t) ==
  /\ pc[t] = "cs_ignore"
  /\ IF ignore_next_command # None
       THEN /\ res' = [res EXCEPT ![t] = IgnoredResult(t)]
            /\ Goto(t, "cs_unlock")
            /\ UNCHANGED old_state
       ELSE /\ old_state' = [old_state EXCEPT ![t] = state]
            /\ Goto(t, "cs_cmp")
            /\ UNCHANGED res
  /\ UNCHANGED engine
  /\ UNCHANGED << nu_state, steps, data, frame_read >>
  /\ UNCHANGED << device, report >>

\* `if self.ignore_next_command:` ... return "IGNORED ..."; else old_state = self.state
CsIgnore(t) ==
  /\ pc[t] = "cs_ignore"
  /\ IF ignore_next_command # None
       THEN /\ ignore_next_command' = None
            /\ res' = [res EXCEPT ![t] = IgnoredResult(t)]
            /\ Goto(t, "cs_unlock")
            /\ UNCHANGED old_state
       ELSE /\ old_state' = [old_state EXCEPT ![t] = state]
            /\ Goto(t, "cs_cmp")
            /\ UNCHANGED << ignore_next_command, res >>
  /\ UNCHANGED << state, past_states, frame, frame_set, running, last_interior,
                  fps, lock >>
  /\ UNCHANGED << nu_state, steps, data, frame_read >>
  /\ UNCHANGED << device, report >>

\* a variant of CsCompare without the test
CsCompareAlways(t) ==
  /\ pc[t] = "cs_cmp"
  /\ Goto(t, "cs_cmp2")
  /\ UNCHANGED engine
  /\ UNCHANGED << nu_state, old_state, res, steps, data, frame_read >>
  /\ UNCHANGED << device, report >>

\* the outer `if self.state != nu_state:`
CsCompare(t) ==
  /\ pc[t] = "cs_cmp"
  /\ Goto(t, IF state # nu_state[t] THEN "cs_cmp2" ELSE "cs_ret")
  /\ UNCHANGED engine
  /\ UNCHANGED << nu_state, old_state, res, steps, data, frame_read >>
  /\ UNCHANGED << device, report >>

\* the inner `if self.state != nu_state:`
CsCompareAgain(t) ==
  /\ pc[t] = "cs_cmp2"
  /\ Goto(t, IF state # nu_state[t] THEN "cs_append" ELSE "cs_state")
  /\ UNCHANGED engine
  /\ UNCHANGED << nu_state, old_state, res, steps, data, frame_read >>
  /\ UNCHANGED << device, report >>

\* a variant of CsAppend which records the new state
CsAppendNew(t) ==
  /\ pc[t] = "cs_append"
  /\ past_states' = DequeAppend(past_states, nu_state[t], MAX_HISTORY)
  /\ Goto(t, "cs_state")
  /\ UNCHANGED << state, ignore_next_command, frame, frame_set, running,
                  last_interior, fps, lock >>
  /\ UNCHANGED << nu_state, old_state, res, steps, data, frame_read >>
  /\ UNCHANGED << device, report >>

\* `self.past_states.append(self.state)`
CsAppend(t) ==
  /\ pc[t] = "cs_append"
  /\ past_states' = DequeAppend(past_states, state, MAX_HISTORY)
  /\ Goto(t, "cs_state")
  /\ UNCHANGED << state, ignore_next_command, frame, frame_set, running,
                  last_interior, fps, lock >>
  /\ UNCHANGED << nu_state, old_state, res, steps, data, frame_read >>
  /\ UNCHANGED << device, report >>

\* `self.state = nu_state`
CsSetState(t) ==
  /\ pc[t] = "cs_state"
  /\ state' = nu_state[t]
  /\ Goto(t, "cs_frame")
  /\ UNCHANGED << past_states, ignore_next_command, frame, frame_set, running,
                  last_interior, fps, lock >>
  /\ UNCHANGED << nu_state, old_state, res, steps, data, frame_read >>
  /\ UNCHANGED << device, report >>

\* `self.frame = 0`
CsSetFrame(t) ==
  /\ pc[t] = "cs_frame"
  /\ frame' = 0
  /\ frame_set' = TRUE
  /\ Goto(t, "cs_ret")
  /\ UNCHANGED << state, past_states, ignore_next_command, running,
                  last_interior, fps, lock >>
  /\ UNCHANGED << nu_state, old_state, res, steps, data, frame_read >>
  /\ UNCHANGED << device, report >>

\* a variant of the final `if` which accepts only the state that is stored
AcceptedLiteral(t) ==
  state = nu_state[t]

\* the condition of the final `if`: the state is the new one, or it is a meta-command
Accepted(t) ==
  \/ state = nu_state[t]
  \/ StrIn(nu_state[t], COMMANDS.ROLLBACK)
  \/ StrIn(nu_state[t], COMMANDS.IGNORE_NEXT_COMMAND)
  \/ StrIn(nu_state[t], COMMANDS.IGNORE_STOP)

\* a variant of CsResult whose final `if` tests the state found at the
\* beginning of the call
CsResultOfOldState(t) ==
  IF \/ old_state[t] = nu_state[t]
     \/ StrIn(nu_state[t], COMMANDS.ROLLBACK)
     \/ StrIn(nu_state[t], COMMANDS.IGNORE_NEXT_COMMAND)
     \/ StrIn(nu_state[t], COMMANDS.IGNORE_STOP)
    THEN Result("OK", state, old_state[t], nu_state[t])
    ELSE Result("ERROR", nu_state[t], old_state[t], state)

\* return "OK {state} # {old} -> {nu}".format(old=old_state, nu=nu_state, state=self.state)
\* return "ERROR {state} # {old} -> {nu}".format(old=old_state, nu=self.state, state=nu_state)
CsResult(t) ==
  IF Accepted(t)
    THEN Result("OK", state, old_state[t], nu_state[t])
    ELSE Result("ERROR", nu_state[t], old_state[t], state)

CsReturn(t) ==
  /\ pc[t] = "cs_ret"
  /\ res' = [res EXCEPT ![t] = CsResult(t)]
  /\ Goto(t, "cs_unlock")
  /\ UNCHANGED engine
  /\ UNCHANGED << nu_state, old_state, steps, data, frame_read >>
  /\ UNCHANGED << device, report >>

\* leaving the `with self.lock:` block
CsUnlock(t) ==
  /\ pc[t] = "cs_unlock"
  /\ lock' = Free
  /\ Goto(t, AfterCall(t))
  /\ UNCHANGED << state, past_states, ignore_next_command, frame, frame_set,
                  running, last_interior, fps >>
  /\ UNCHANGED << nu_state, old_state, res, steps, data, frame_read >>
  /\ UNCHANGED << device, report >>

\* the steps of change_state
ChangeStateStep(t) ==
  \/ CsLock(t)
  \/ CsIgnore(t)
  \/ CsCompare(t)
  \/ CsCompareAgain(t)
  \/ CsAppend(t)
  \/ CsSetState(t)
  \/ CsSetFrame(t)
  \/ CsReturn(t)
  \/ CsUnlock(t)

\* ------------------------------------------------------------------------
\* LEDs.rollback(steps), executed by thread t (no lock is taken)
\* ------------------------------------------------------------------------

\* a variant of RbBegin whose first test is off by one
RbBeginOffByOne(t) ==
  /\ pc[t] = "rb_begin"
  /\ last_interior' = FALSE
  /\ Goto(t, IF Len(past_states) + 1 >= steps[t] THEN "rb_pop"
             ELSE IF Len(past_states) > 0 THEN "rb_first"
             ELSE "rb_default")
  /\ UNCHANGED << state, past_states, ignore_next_command, frame, frame_set,
                  running, fps, lock >>
  /\ UNCHANGED << nu_state, old_state, res, steps, data, frame_read >>
  /\ UNCHANGED << device, report >>

\* `self._last_interior = None` and the test of len(self.past_states)
RbBegin(t) ==
  /\ pc[t] = "rb_begin"
  /\ last_interior' = FALSE
  /\ Goto(t, IF Len(past_states) >= steps[t] THEN "rb_pop"
             ELSE IF Len(past_states) > 0 THEN "rb_first"
             ELSE "rb_default")
  /\ UNCHANGED << state, past_states, ignore_next_command, frame, frame_set,
                  running, fps, lock >>
  /\ UNCHANGED << nu_state, old_state, res, steps, data, frame_read >>
  /\ UNCHANGED << device, report >>

\* a variant of RbPop which keeps the first entry popped
RbPopKeepsFirst(t) ==
  /\ pc[t] = "rb_pop"
  /\ IF past_states = << >>
       THEN /\ Goto(t, "raised")
            /\ UNCHANGED << past_states, old_state, steps >>
       ELSE /\ old_state' = [old_state EXCEPT ![t] =
                   IF old_state[t] = None THEN past_states[Len(past_states)]
                   ELSE old_state[t]]
            /\ past_states' = SubSeq(past_states, 1, Len(past_states) - 1)
            /\ steps' = [steps EXCEPT ![t] = steps[t] - 1]
            /\ Goto(t, IF steps[t] > 1 THEN "rb_pop" ELSE "rb_set")
  /\ UNCHANGED << state, ignore_next_command, frame, frame_set, running,
                  last_interior, fps, lock >>
  /\ UNCHANGED << nu_state, res, data, frame_read >>
  /\ UNCHANGED << device, report >>

\* `for _ in range(steps): old_state = self.past_states.pop()` -- one pop;
\* pop() on an empty deque raises IndexError
RbPop(t) ==
  /\ pc[t] = "rb_pop"
  /\ IF past_states = << >>
       THEN /\ Goto(t, "raised")
            /\ UNCHANGED << past_states, old_state, steps >>
       ELSE /\ old_state' = [old_state EXCEPT ![t] = past_states[Len(past_states)]]
            /\ past_states' = SubSeq(past_states, 1, Len(past_states) - 1)
            /\ steps' = [steps EXCEPT ![t] = steps[t] - 1]
            /\ Goto(t, IF steps[t] > 1 THEN "rb_pop" ELSE "rb_set")
  /\ UNCHANGED << state, ignore_next_command, frame, frame_set, running,
                  last_interior, fps, lock >>
  /\ UNCHANGED << nu_state, res, data, frame_read >>
  /\ UNCHANGED << device, report >>

\* a variant of RbSetState which starts the restored state at frame 0
RbSetStateResetsFrame(t) ==
  /\ pc[t] = "rb_set"
  /\ state' = old_state[t]
  /\ frame' = 0
  /\ Goto(t, AfterCall(t))
  /\ UNCHANGED << past_states, ignore_next_command, frame_set, running,
                  last_interior, fps, lock >>
  /\ UNCHANGED << nu_state, old_state, res, steps, data, frame_read >>
  /\ UNCHANGED << device, report >>

\* `self.state = old_state`
RbSetState(t) ==
  /\ pc[t] = "rb_set"
  /\ state' = old_state[t]
  /\ Goto(t, AfterCall(t))
  /\ UNCHANGED << past_states, ignore_next_command, frame, frame_set, running,
                  last_interior, fps, lock >>
  /\ UNCHANGED << nu_state, old_state, res, steps, data, frame_read >>
  /\ UNCHANGED << device, report >>

\* a variant of RbFirst which takes the newest entry
RbFirstNewest(t) ==
  /\ pc[t] = "rb_first"
  /\ IF past_states = << >>
       THEN /\ Goto(t, "raised")
            /\ UNCHANGED state
       ELSE /\ state' = past_states[Len(past_states)]
            /\ Goto(t, "rb_clear")
  /\ UNCHANGED << past_states, ignore_next_command, frame, frame_set, running,
                  last_interior, fps, lock >>
  /\ UNCHANGED << nu_state, old_state, res, steps, data, frame_read >>
  /\ UNCHANGED << device, report >>

\* `self.state = self.past_states[0]`; indexing an empty deque raises IndexError
RbFirst(t) ==
  /\ pc[t] = "rb_first"
  /\ IF past_states = << >>
       THEN /\ Goto(t, "raised")
            /\ UNCHANGED state
       ELSE /\ state' = past_states[1]
            /\ Goto(t, "rb_clear")
  /\ UNCHANGED << past_states, ignore_next_command, frame, frame_set, running,
                  last_interior, fps, lock >>
  /\ UNCHANGED << nu_state, old_state, res, steps, data, frame_read >>
  /\ UNCHANGED << device, report >>

\* `self.past_states.clear()`
RbClear(t) ==
  /\ pc[t] = "rb_clear"
  /\ past_states' = << >>
  /\ Goto(t, AfterCall(t))
  /\ UNCHANGED << state, ignore_next_command, frame, frame_set, running,
                  last_interior, fps, lock >>
  /\ UNCHANGED << nu_state, old_state, res, steps, data, frame_read >>
  /\ UNCHANGED << device, report >>

\* `self.state = DEFAULT_STATE`
RbDefault(t) ==
  /\ pc[t] = "rb_default"
  /\ state' = DEFAULT_STATE
  /\ Goto(t, AfterCall(t))
  /\ UNCHANGED << past_states, ignore_next_command, frame, frame_set, running,
                  last_interior, fps, lock >>
  /\ UNCHANGED << nu_state, old_state, res, steps, data, frame_read >>
  /\ UNCHANGED << device, report >>

\* the steps of rollback
RollbackStep(t) ==
  \/ RbBegin(t)
  \/ RbPop(t)
  \/ RbSetState(t)
  \/ RbFirst(t)
  \/ RbClear(t)
  \/ RbDefault(t)

\* ------------------------------------------------------------------------
\* LEDs.parse_input and LEDs.handle: what one frame of a command does to the
\* engine state (the pixels it writes are not part of this outcome)
\* ------------------------------------------------------------------------

\* the decimal strings the commands of the model use, with their int() value;
\* int() of any other string of the model raises ValueError
IntTable ==
  ("-1" :> (0 - 1)) @@ ("0" :> 0) @@ ("1" :> 1) @@ ("2" :> 2) @@ ("3" :> 3) @@
  ("50" :> 50) @@ ("100" :> 100) @@ ("255" :> 255) @@
  ("-5" :> (0 - 5)) @@ ("-4" :> (0 - 4)) @@ ("300" :> 300)

IsInt(s) == s \in DOMAIN IntTable

\* state_string = data or COMMANDS['OFF'][0]; params = state_string.split(':');
\* command = params.pop(0)
parse_input(d) ==
  LET state_string == IF d = None \/ d = << "" >> THEN << COMMANDS.OFF[1] >> ELSE d
  IN  [command |-> Head(state_string), params |-> Tail(state_string)]

\* the key of COMMANDS under which each alias is listed: the branch of the
\* elif chain of handle() which takes it (no alias occurs under two keys)
AliasKey ==
  [alias \in UNION { { COMMANDS[key][i] : i \in DOMAIN COMMANDS[key] } : key \in DOMAIN COMMANDS } |->
     CHOOSE key \in DOMAIN COMMANDS : InList(alias, COMMANDS[key])]

\* the key of COMMANDS whose branch of handle() takes the command, "NONE" for
\* the final else
KeyOf(command) ==
  IF command \in DOMAIN AliasKey THEN AliasKey[command] ELSE "NONE"

Outcome(act, k, nu) == [act |-> act, k |-> k, nu |-> nu]
Render == Outcome("render", 0, None)
Raise  == Outcome("raise", 0, None)

\* variant of rollback_after_frames which rolls back from frame = max_frames on
RollbackAfterFramesAtLimit(f, args, i) ==
  IF Len(args) < i THEN Render
  ELSE IF ~IsInt(args[i]) THEN Raise
  ELSE IF IntTable[args[i]] <= 0 THEN Render
  ELSE IF f >= IntTable[args[i]] THEN Outcome("rollback", 1, None)
  ELSE Render

\* rollback_after_frames(frame, max_frames): int(max_frames) may raise; nothing
\* happens unless max_frames > 0 and frame > max_frames, then rollback(1)
RollbackAfterFrames(f, args, i) ==
  IF Len(args) < i THEN Render
  ELSE IF ~IsInt(args[i]) THEN Raise
  ELSE IF IntTable[args[i]] <= 0 THEN Render
  ELSE IF f > IntTable[args[i]] THEN Outcome("rollback", 1, None)
  ELSE Render

\* `state_length = int(args.pop(0)) if len(args) > 0 else d`, the animation
\* (which divides frame by state_length), then rollback_after_frames with the
\* next argument
TimedAnimation(f, args) ==
  IF Len(args) = 0 THEN Render
  ELSE IF ~IsInt(args[1]) THEN Raise
  ELSE IF IntTable[args[1]] = 0 THEN Raise
  ELSE RollbackAfterFrames(f, args, 2)

\* `r, g, b = (int(args[i]) for i in range(3))`
ThreeInts(args) == Len(args) >= 3 /\ \A i \in 1..3 : IsInt(args[i])

\* how many arguments the try block of BLINK_CUSTOM_COLOR pops before it
\* completes or raises (the exception is passed over)
BlinkPopped(args) ==
  IF Len(args) = 0 THEN 0
  ELSE IF ~IsInt(args[1]) \/ Len(args) = 1 THEN 1
  ELSE IF ~IsInt(args[2]) \/ Len(args) = 2 THEN 2
  ELSE 3

\* int(state_length * self.fps) with state_length = 10/28: the number of
\* steps of fade_off; _mylinspace divides by it
FadeSteps(n) == (10 * n) \div 28

\* job_finished: f = int(round(frame / 1)) % (self.fps + l*2) with l = 7; the
\* branch for f >= l*2 uses the undefined names r and i
JobFinishedRaises(f, n) == (f % (n + 14)) >= 14

\* the png files load_png finds in the png folder
PngFolder == { "colordots.png", "huge.png", "narrow.png" }

\* the files of at least max_png_size bytes
PngTooLarge == { "huge.png" }

\* the images narrower than len(LEDS_RIGHT_BACK) pixels
PngTooNarrow == { "narrow.png" }

\* load_png(filename) returns None instead of the list of rows
LoadPngNone(filename) ==
  \/ filename \notin PngFolder
  \/ filename \in PngTooLarge
  \/ filename \in PngTooNarrow

\* png(): `frames = len(animation)` comes before the test `animation != None`
\* and raises TypeError for None
PngRaises(filename) == LoadPngNone(filename)

StaticColorKeys ==
  { "LENS_CALIBRATION", "WHITE", "RED", "GREEN", "BLUE", "YELLOW", "ORANGE" }

TimedKeys ==
  { "FLASH_WHITE", "FLASH_RED", "FLASH_GREEN", "FLASH_BLUE", "FLASH_YELLOW",
    "FLASH_ORANGE", "BLINK_WHITE", "BLINK_RED", "BLINK_GREEN", "BLINK_BLUE",
    "BLINK_YELLOW", "BLINK_ORANGE" }

\* a variant of MissingArgs which knows the primary aliases only
MissingArgsPrimary(command, args) ==
  /\ \E key \in COMMANDS_REQ_ARG : command = COMMANDS[key][1]
  /\ args = << >>

\* `command in [comm for key in COMMANDS_REQ_ARG for comm in COMMANDS[key]] and not args`
MissingArgs(command, args) ==
  /\ \E key \in COMMANDS_REQ_ARG : InList(command, COMMANDS[key])
  /\ args = << >>

\* the outcome of handle(command, args) at frame f with n frames per second
\* (args.pop(0) on an empty list raises IndexError)
HandleOutcome(command, args, f, n) ==
  LET key == KeyOf(command) IN
  IF MissingArgs(command, args) THEN Raise
  ELSE IF key \in {"ROLLBACK", "SHUTDOWN_PREPARE_CANCEL"} THEN Outcome("rollback", 2, None)
  ELSE IF key = "IGNORE_NEXT_COMMAND" THEN Outcome("ignore_next", 1, None)
  ELSE IF key = "IGNORE_STOP" THEN Outcome("ignore_stop", 1, None)
  ELSE IF key \in {"LASER_JOB_CANCELLED", "LASER_JOB_FAILED", "SLICING_FAILED"}
    THEN IF FadeSteps(n) = 0 THEN Raise
         ELSE Outcome("change_state", 0, << "ClientOpened" >>)
  ELSE IF key = "PRINT_PAUSED_TIMEOUT_BLOCK"
    THEN IF f > n THEN Outcome("change_state", 0, << COMMANDS.PRINT_PAUSED_TIMEOUT[1] >>)
         ELSE Render
  ELSE IF key = "BUTTON_PRESS_REJECT"
    THEN IF f > n THEN Outcome("rollback", 1, None) ELSE Render
  ELSE IF key = "SETTINGS_UPDATED"
    THEN IF f > 50 THEN Outcome("rollback", 1, None) ELSE Render
  ELSE IF key \in {"JOB_FINISHED", "LASER_JOB_DONE"}
    THEN IF JobFinishedRaises(f, n) THEN Raise ELSE Render
  ELSE IF key \in {"PROGRESS", "SLICING_PROGRESS"}
    THEN IF args # << >> /\ IsInt(args[1]) THEN Render ELSE Raise
  ELSE IF key = "LISTENING_COLOR"
    THEN IF /\ Len(args) >= 3
            /\ \A i \in 1..Len(args) : i <= 3 \/ Len(args) < 6 \/ i > 6 \/ IsInt(args[i])
            /\ \A i \in 1..3 : IsInt(args[i])
           THEN Render ELSE Raise
  ELSE IF key = "PNG_ANIMATION"
    THEN IF args # << >> /\ ~PngRaises(args[1]) THEN Render ELSE Raise
  ELSE IF key = "DEBUG_STOP"
    THEN IF args # << >> /\ IsInt(args[1]) /\ IntTable[args[1]] >= 0
           THEN Outcome("rollback", 1, None) ELSE Raise
  ELSE IF key \in StaticColorKeys THEN RollbackAfterFrames(f, args, 1)
  ELSE IF key \in TimedKeys THEN TimedAnimation(f, args)
  ELSE IF key = "CUSTOM_COLOR"
    THEN IF ThreeInts(args) THEN RollbackAfterFrames(f, args, 1) ELSE Raise
  ELSE IF key = "FLASH_CUSTOM_COLOR"
    THEN IF ~ThreeInts(args) THEN Raise
         ELSE IF Len(args) > 3 /\ ~IsInt(args[4]) THEN Raise
         ELSE IF Len(args) > 3 /\ IntTable[args[4]] = 0 THEN Raise
         ELSE RollbackAfterFrames(f, args, 1)
  ELSE IF key = "BLINK_CUSTOM_COLOR"
    THEN TimedAnimation(f, SubSeq(args, BlinkPopped(args) + 1, Len(args)))
  ELSE IF key = "NONE" THEN Outcome("unknown", 0, None)
  ELSE Render

\* ------------------------------------------------------------------------
\* The settings: the fps property, the brightness setters, set_setting
\* ------------------------------------------------------------------------

\* a Python value which is a number or None
Num(n) == [none |-> FALSE, n |-> n]
NoneNum == [none |-> TRUE, n |-> 0]

Abs(n) == IF n < 0 THEN 0 - n ELSE n
Max(a, b) == IF a >= b THEN a ELSE b

\* variant of the fps setter which stores the value as it is given
FpsSetterAsGiven(value) == IF value.none THEN DEFAULT_FPS ELSE value.n

\* the fps setter: `value = value or DEFAULT_FPS`,
\* `self._fps = max(abs(value), 1)`
FpsSetter(value) ==
  LET v == IF value.none \/ value.n = 0 THEN DEFAULT_FPS ELSE value.n
  IN  Max(Abs(v), 1)

\* frame_duration: `1 / self.fps`, as a fraction; the division raises
\* ZeroDivisionError when fps is 0
frame_duration == [defined |-> fps # 0, num |-> 1, den |-> fps]

\* what a function gave: a value, or the exception it raised
Returned(v) == [exc |-> "", val |-> v]
Raised(e) == [exc |-> e, val |-> 0]

\* the body of _parse8bit(self, val): `int(val) & 0xff`, ValueError when
\* int() fails
parse8bit(self, val) ==
  IF IsInt(val) THEN Returned(IntTable[val] % 256) ELSE Raised("ValueError")

\* a call of _parse8bit with the actual arguments given: the function is
\* defined at module level with the two parameters (self, val)
CallParse8bit(actuals) ==
  IF Len(actuals) # 2 THEN Raised("TypeError")
  ELSE parse8bit(actuals[1], actuals[2])

\* set_brightness, set_inside_brightness, set_edge_brightness:
\* `_parse8bit(bright)`
SetterParsed(bright) == CallParse8bit(<< bright >>)

\* spread_spectrum(params) for params that are not empty: "off" and "on"
\* with four integers reset the strip; "on" with three parameters fails on
\* params[4] and the bare except logs it
SpreadSpectrum(params) ==
  IF params[1] = "off" THEN [reset |-> TRUE, status |-> "off"]
  ELSE IF params[1] = "on" /\ Len(params) = 5
          /\ \A i \in 2..5 : IsInt(params[i])
    THEN [reset |-> TRUE, status |-> "on"]
  ELSE [reset |-> FALSE, status |-> ""]

Zone(setting) ==
  IF InList(setting, SETTINGS.BRIGHTNESS) THEN "brightness"
  ELSE IF InList(setting, SETTINGS.INSIDE_BRIGHTNESS) THEN "inside"
  ELSE IF InList(setting, SETTINGS.EDGE_BRIGHTNESS) THEN "edge"
  ELSE "none"

\* set_setting(setting, params): only ValueError is caught
SetSetting(setting, params) ==
  LET zone == Zone(setting)
      got == IF params = << >> THEN Raised("IndexError") ELSE SetterParsed(params[1])
      stored(z, old) == IF zone = z /\ got.exc = "" THEN got.val ELSE old
      isfps == InList(setting, SETTINGS.FPS)
      isspread == InList(setting, SETTINGS.SPREAD_SPECTRUM)
      newfps == IF isfps /\ params # << >> /\ IsInt(Head(params))
                  THEN FpsSetter(Num(IntTable[Head(params)])) ELSE fps
      spread == IF isspread /\ params # << >> THEN SpreadSpectrum(params)
                ELSE [reset |-> FALSE, status |-> ""]
  IN  /\ brightness' = stored("brightness", brightness)
      /\ inside_brightness' = stored("inside", inside_brightness)
      /\ edge_brightness' = stored("edge", edge_brightness)
      /\ update_required' = IF zone \in {"inside", "edge"} /\ got.exc = ""
                               THEN TRUE ELSE update_required
      /\ fps' = newfps
      /\ pixels' = IF spread.reset THEN [i \in Leds |-> Word(0, 0)] ELSE pixels
      /\ setting_res' =
           IF zone # "none"
             THEN IF got.exc = "ValueError" THEN Reply("PARSE", setting, params, 0)
                  ELSE IF got.exc # "" THEN Reply(got.exc, setting, params, 0)
                  ELSE Reply("OK", setting, params, got.val)
           ELSE IF isfps
             THEN IF params = << >> THEN Reply("IndexError", setting, params, 0)
                  ELSE IF ~IsInt(Head(params)) THEN Reply("PARSE", setting, params, 0)
                  ELSE Reply("OK", setting, params, newfps)
           ELSE IF isspread
             THEN IF params = << >> THEN Reply("IndexError", setting, params, 0)
                  ELSE IF spread.status = "" THEN Reply("ERROR", setting, params, 0)
                  ELSE Reply("OK", setting, params, 0)
           ELSE Reply("ERROR", setting, params, 0)
      /\ UNCHANGED << state, past_states, ignore_next_command, frame, frame_set,
                      running, last_interior, lock >>
      /\ UNCHANGED << locals, ghosts, job_progress, handed, pushed, evaluated >>

\* ------------------------------------------------------------------------
\* The strip: what handle() writes besides the engine fields
\* ------------------------------------------------------------------------

\* x | y on Python integers (two's complement of unbounded width)
RECURSIVE BitOr(_, _)
BitOr(x, y) ==
  IF x = 0 THEN y
  ELSE IF y = 0 THEN x
  ELSE IF x = 0 - 1 \/ y = 0 - 1 THEN 0 - 1
  ELSE LET bit == IF x % 2 = 1 \/ y % 2 = 1 THEN 1 ELSE 0
       IN  bit + 2 * BitOr(x \div 2, y \div 2)

\* rpi_ws281x.Color(red, green, blue): (white << 24) | (red << 16) |
\* (green << 8) | blue with white = 0
Color(red, green, blue) ==
  LET low == BitOr(green * 256, blue)
  IN  Word(BitOr(red, low \div 65536), low % 65536)

\* class Colors(Enum), by the values of its members
Colors ==
  [ OFF    |-> Color(0, 0, 0),
    WHITE  |-> Color(255, 255, 255),
    RED    |-> Color(255, 0, 0),
    GREEN  |-> Color(0, 255, 0),
    BLUE   |-> Color(0, 0, 255),
    YELLOW |-> Color(255, 200, 0),
    ORANGE |-> Color(226, 83, 3),
    RED2   |-> Color(2, 0, 0) ]

\* a fraction num/den with den > 0, for a Python float
Frac(num, den) == [num |-> num, den |-> den]
One == Frac(1, 1)

\* int(x) of the fraction a/d: truncation towards zero
Trunc(a, d) == IF a >= 0 THEN a \div d ELSE 0 - ((0 - a) \div d)

\* int(round(a/d)) for a >= 0: Python 3 rounds a tie to the even neighbour
RoundHalfEven(a, d) ==
  LET q == a \div d
      twice == 2 * (a % d)
  IN  IF twice < d THEN q
      ELSE IF twice > d THEN q + 1
      ELSE IF q % 2 = 0 THEN q ELSE q + 1

\* (color & 0xFF0000) >> 16, (color & 0x00FF00) >> 8, color & 0x0000FF
RedOf(color)   == color.hi % 256
GreenOf(color) == color.lo \div 256
BlueOf(color)  == color.lo % 256

\* a dim_color which takes the green channel with the mask of the blue one
DimColorBlueForGreen(color, b) ==
  Color(Trunc(RedOf(color) * b.num, b.den),
        Trunc(BlueOf(color) * b.num, b.den),
        Trunc(BlueOf(color) * b.num, b.den))

\* dim_color(color, brightness) for the brightness b.num / b.den
dim_color(color, b) ==
  Color(Trunc(RedOf(color) * b.num, b.den),
        Trunc(GreenOf(color) * b.num, b.den),
        Trunc(BlueOf(color) * b.num, b.den))

\* a colour of 24 bits: each channel in [0,255] and nothing above them
IsRgb(color) == color.hi \in 0..255

\* a pixel whose colour this model does not resolve
Unresolved == Word(0 - 1, 0)

EdgeLeds == { OUTSIDE_LEDS[r][k] : r \in 1..4, k \in 1..7 }

\* the position of an edge LED in its register, counted from 0
RegisterIndex(i) == IF i < 14 THEN i % 7 ELSE (i - 32) % 7

\* the colour _set_color stores for LED i when it is handed color:
\* dim_color by inside_brightness/255.0 or edge_brightness/255.0
Scaled(i, color) ==
  IF i \in LEDS_INSIDE THEN dim_color(color, Frac(inside_brightness, 255))
  ELSE dim_color(color, Frac(edge_brightness, 255))

\* variant of _set_color which marks the buffer dirty on every call
SetColorAlwaysDirty(i, color) ==
  /\ pixels' = [pixels EXCEPT ![i] = Scaled(i, color)]
  /\ update_required' = TRUE

\* _set_color(i, color): the buffer and the dirty flag
SetColor(i, color) ==
  IF pixels[i] # Scaled(i, color)
    THEN /\ pixels' = [pixels EXCEPT ![i] = Scaled(i, color)]
         /\ update_required' = TRUE
    ELSE UNCHANGED << pixels, update_required >>

\* _update(): setBrightness and show when update_required, which it clears
Update ==
  IF update_required
    THEN /\ pushed' = "yes"
         /\ update_required' = FALSE
    ELSE /\ pushed' = "no"
         /\ UNCHANGED update_required

\* what one frame writes: the LEDs in set are handed col[i]; the LEDs in blur
\* are written by an animation whose colours this model does not resolve;
\* flush tells whether the frame ends in _update()
Plan(set, col, blur) == [set |-> set, col |-> col, blur |-> blur, flush |-> TRUE]

\* nothing is written: the command has no animation or raises before it
NoPlan ==
  [set |-> {}, col |-> [i \in Leds |-> Colors.OFF], blur |-> {}, flush |-> FALSE]

\* an animation on the edge LEDs which this model does not resolve
EdgeBlur == Plan({}, [i \in Leds |-> Colors.OFF], EdgeLeds)

\* an animation on all LEDs which this model does not resolve
AllBlur == Plan({}, [i \in Leds |-> Colors.OFF], Leds)

\* the same colours on the four registers: C(k) at position k
EdgePlan(C(_)) ==
  Plan(EdgeLeds,
       [i \in Leds |-> IF i \in EdgeLeds THEN C(RegisterIndex(i)) ELSE Colors.OFF],
       {})

\* static_color(color) and static_color(color, color_inside)
StaticColor(color) == Plan(EdgeLeds, [i \in Leds |-> color], {})
StaticColorInside(color, color_inside) ==
  Plan(Leds, [i \in Leds |-> IF i \in LEDS_INSIDE THEN color_inside ELSE color], {})

\* variant of progress which draws the drip over the done colour as well
ProgressPlanDripOver(value, f, color_done, color_drip, sl) ==
  LET l == 7
      c == RoundHalfEven(f * sl.den, sl.num) % l
      C(i) == IF i = c THEN color_drip
              ELSE IF value * (l - 1) < (l - i - 1) * 100 THEN Colors.OFF
              ELSE color_done
  IN  EdgePlan(C)

\* progress(value, frame, color_done, color_drip, state_length), for the
\* integer value and the state_length sl
ProgressPlan(value, f, color_done, color_drip, sl) ==
  LET l == 7
      c == RoundHalfEven(f * sl.den, sl.num) % l
      C(i) == IF value * (l - 1) < (l - i - 1) * 100
                THEN IF i = c THEN color_drip ELSE Colors.OFF
                ELSE color_done
  IN  EdgePlan(C)

\* _breath_factor(frame, f_count, state_length) with f_count =
\* state_length * fps: 1 - (abs((frame/state_length % f_count*2) -
\* (f_count-1))/f_count), where % and * associate to the left
breath_factor(f, n, sl) ==
  LET X  == f * sl.den * sl.den
      FC == sl.num * sl.num * n
      D  == sl.num * sl.den
      A  == 2 * (X % FC) - (FC - D)
  IN  Frac(FC - Abs(A), FC)

\* progress_pause(value, frame, breathing, color_done, color_drip) with its
\* state_length of 1.5
ProgressPausePlan(value, f, n, breathing, color_drip) ==
  LET sl == Frac(3, 2)
      dim == IF breathing THEN breath_factor(f, n, sl) ELSE One
  IN  ProgressPlan(value, f, Colors.WHITE, dim_color(color_drip, dim), sl)

\* dust_extraction(frame) and the branch f < l*2 of job_finished(frame),
\* with the colour they use
FillPlan(f, n, color) ==
  LET l == 7
      fm == f % (n + l * 2)
      lit == { i \in EdgeLeds : RegisterIndex(i) < RoundHalfEven(fm, 2) }
  IN  IF fm < l * 2
        THEN Plan(lit, [i \in Leds |-> color], {})
        ELSE StaticColor(dim_color(color, Frac(n - (fm - l * 2), n)))

\* job_finished(frame): the branch f >= l*2 raises NameError at its first
\* _set_color
JobFinishedPlan(f, n) ==
  IF JobFinishedRaises(f, n) THEN NoPlan ELSE FillPlan(f, n, Colors.GREEN)

\* shutdown_prepare(frame): the colour it hands to static_color. The ramp is
\* int(205 * (1 - frame/peak_frame)) in binary floating point, which differs
\* from the exact quotient where frame/peak_frame is 4/5: 1 - 0.8 is
\* 0.19999999999999996 and the ramp is 40, not 41
ShutdownPrepareColor(f, n) ==
  LET brightness_start_val == 205
      peak_frame == 5 * n
      on == f % 10 > 3
      exact == Trunc(brightness_start_val * (peak_frame - f), peak_frame)
      ramp == Max(IF 5 * f = 4 * peak_frame THEN exact - 1 ELSE exact, 0)
  IN  IF ~on THEN Colors.OFF
      ELSE IF f <= peak_frame THEN dim_color(Colors.RED, Frac(ramp, 1))
      ELSE Colors.RED

\* the colour of the commands which show one static colour on the edges
StaticColorOf(key) ==
  IF key = "WHITE" THEN Colors.WHITE
  ELSE IF key \in {"RED", "SHUTDOWN"} THEN Colors.RED
  ELSE IF key = "GREEN" THEN Colors.GREEN
  ELSE IF key = "BLUE" THEN Colors.BLUE
  ELSE IF key = "YELLOW" THEN Colors.YELLOW
  ELSE IF key = "ON" THEN Colors.WHITE
  ELSE Colors.ORANGE

\* what handle(command, args) writes to the strip at frame f with n frames
\* per second and the job progress jp
FramePlan(command, args, f, n, jp) ==
  LET key == KeyOf(command)
      rest == IF key = "BLINK_CUSTOM_COLOR"
                THEN SubSeq(args, BlinkPopped(args) + 1, Len(args)) ELSE args
      length_ok(a, i) == Len(a) < i \/ (IsInt(a[i]) /\ IntTable[a[i]] # 0)
  IN
  IF MissingArgs(command, args) THEN NoPlan
  ELSE IF key \in {"LISTENING", "UNKNOWN"} THEN AllBlur
  ELSE IF key \in {"LISTENING_NET", "LISTENING_AP", "LISTENING_AP_AND_NET",
                   "LISTENING_FINDMRBEAM", "CLIENT_CLOSED", "CLIENT_OPENED",
                   "READY_TO_PRINT_CANCEL", "SLICING_CANCELLED", "ERROR",
                   "READY_TO_PRINT", "NONE"} THEN EdgeBlur
  ELSE IF key = "LISTENING_COLOR"
    THEN IF HandleOutcome(command, args, f, n) = Render THEN EdgeBlur ELSE NoPlan
  ELSE IF key \in {"LASER_JOB_CANCELLED", "LASER_JOB_FAILED", "SLICING_FAILED"}
    THEN IF FadeSteps(n) = 0 THEN NoPlan ELSE EdgeBlur
  ELSE IF key = "SETTINGS_UPDATED" THEN IF f > 50 THEN NoPlan ELSE EdgeBlur
  ELSE IF key = "PNG_ANIMATION"
    THEN IF args = << >> THEN NoPlan
         ELSE IF PngRaises(args[1]) THEN NoPlan ELSE AllBlur
  ELSE IF key \in TimedKeys \cup {"BLINK_CUSTOM_COLOR"}
    THEN IF length_ok(rest, 1) THEN EdgeBlur ELSE NoPlan
  ELSE IF key = "FLASH_CUSTOM_COLOR"
    THEN IF ThreeInts(args) /\ length_ok(args, 4) THEN EdgeBlur ELSE NoPlan
  ELSE IF key \in {"WHITE", "RED", "GREEN", "BLUE", "YELLOW", "ORANGE",
                   "SHUTDOWN", "ON"} THEN StaticColor(StaticColorOf(key))
  ELSE IF key = "CUSTOM_COLOR"
    THEN IF ThreeInts(args)
           THEN StaticColor(Color(IntTable[args[1]], IntTable[args[2]], IntTable[args[3]]))
           ELSE NoPlan
  ELSE IF key = "LENS_CALIBRATION" THEN StaticColorInside(Colors.BLUE, Colors.WHITE)
  ELSE IF key = "OFF" THEN StaticColorInside(Colors.OFF, Colors.OFF)
  ELSE IF key = "SHUTDOWN_PREPARE" THEN StaticColor(ShutdownPrepareColor(f, n))
  ELSE IF key = "PRINT_STARTED"
    THEN ProgressPlan(0, f, Colors.WHITE, Colors.BLUE, Frac(2, 1))
  ELSE IF key = "SLICING_STARTED"
    THEN ProgressPlan(0, f, Colors.BLUE, Colors.WHITE, Frac(3, 1))
  ELSE IF key = "SLICING_DONE"
    THEN ProgressPlan(100, f, Colors.BLUE, Colors.WHITE, Frac(3, 1))
  ELSE IF key = "PROGRESS"
    THEN IF args = << >> THEN NoPlan
         ELSE IF IsInt(args[1])
           THEN ProgressPlan(IntTable[args[1]], f, Colors.WHITE, Colors.BLUE, Frac(2, 1))
           ELSE NoPlan
  ELSE IF key = "SLICING_PROGRESS"
    THEN IF args = << >> THEN NoPlan
         ELSE IF IsInt(args[1])
           THEN ProgressPlan(IntTable[args[1]], f, Colors.BLUE, Colors.WHITE, Frac(3, 1))
           ELSE NoPlan
  ELSE IF key \in {"PRINT_DONE", "PRINT_CANCELLED"} THEN FillPlan(f, n, Colors.WHITE)
  ELSE IF key \in {"JOB_FINISHED", "LASER_JOB_DONE"} THEN JobFinishedPlan(f, n)
  ELSE IF key \in {"PRINT_RESUMED", "PRINT_PAUSED", "PAUSE", "PRINT_PAUSED_TIMEOUT",
                   "PRINT_PAUSED_TIMEOUT_BLOCK", "BUTTON_PRESS_REJECT"}
    THEN IF ~IsInt(jp) THEN NoPlan
         ELSE IF key = "PRINT_RESUMED"
           THEN ProgressPlan(IntTable[jp], f, Colors.WHITE, Colors.BLUE, Frac(2, 1))
         ELSE IF key \in {"PRINT_PAUSED", "PAUSE"}
           THEN ProgressPausePlan(IntTable[jp], f, n, TRUE, Colors.BLUE)
         ELSE IF key = "PRINT_PAUSED_TIMEOUT"
           THEN ProgressPausePlan(IntTable[jp], f, n, FALSE, Colors.BLUE)
         ELSE IF f > n THEN NoPlan
         ELSE ProgressPausePlan(IntTable[jp], f, n, FALSE, Colors.RED)
  ELSE NoPlan

\* a handle which forgets the progress when the job pauses
JobProgressForgotOnPause(command, args, jp) ==
  LET key == KeyOf(command) IN
  IF MissingArgs(command, args) THEN jp
  ELSE IF key \in {"PRINT_DONE", "PRINT_CANCELLED", "LASER_JOB_DONE",
                   "LASER_JOB_CANCELLED", "PAUSE", "PRINT_PAUSED"} THEN "0"
  ELSE IF key = "PROGRESS" THEN IF args = << >> THEN jp ELSE args[1]
  ELSE jp

\* `self.job_progress = 0` of the states that end a job and
\* `self.job_progress = args.pop(0)` of PROGRESS
JobProgressAfter(command, args, jp) ==
  LET key == KeyOf(command) IN
  IF MissingArgs(command, args) THEN jp
  ELSE IF key \in {"PRINT_DONE", "PRINT_CANCELLED", "LASER_JOB_DONE",
                   "LASER_JOB_CANCELLED"} THEN "0"
  ELSE IF key = "PROGRESS" THEN IF args = << >> THEN jp ELSE args[1]
  ELSE jp

\* the buffer after the writes of a frame
Painted(plan) ==
  [i \in Leds |-> IF i \in plan.blur THEN Unresolved
                  ELSE IF i \in plan.set THEN Scaled(i, plan.col[i])
                  ELSE pixels[i]]

\* whether the _update() which ends the frame pushes the buffer
FramePushed(plan) ==
  IF update_required THEN "yes"
  ELSE IF plan.blur # {} \/ \E i \in plan.set : pixels[i] = Unresolved
    THEN "unresolved"
  ELSE IF \E i \in plan.set : pixels[i] # Scaled(i, plan.col[i]) THEN "yes"
  ELSE "no"

\* what handle() writes besides the engine fields, for the command read at
\* the top of the iteration
HandleDevice ==
  \E parsed \in { parse_input(data) } :
  \E jp \in { JobProgressAfter(parsed.command, parsed.params, job_progress) } :
  \E plan \in { FramePlan(parsed.command, parsed.params, frame, fps, jp) } :
      /\ job_progress' = jp
      /\ brightness' = IF KeyOf(parsed.command) = "ON" THEN 255 ELSE brightness
      /\ pixels' = Painted(plan)
      /\ handed' = { plan.col[i] : i \in plan.set }
      /\ update_required' = IF plan.flush THEN FALSE ELSE update_required
      /\ pushed' = IF plan.flush THEN FramePushed(plan) ELSE pushed
      /\ UNCHANGED << inside_brightness, edge_brightness, setting_res, evaluated >>

\* ------------------------------------------------------------------------
\* LEDs.loop, executed by the thread "loop"
\* ------------------------------------------------------------------------

\* `self.running = True`, `self.frame = 0`
LoopStart ==
  /\ pc["loop"] = "init"
  /\ running' = TRUE
  /\ frame' = 0
  /\ frame_set' = TRUE
  /\ Goto("loop", "top")
  /\ UNCHANGED << state, past_states, ignore_next_command, last_interior, fps, lock >>
  /\ UNCHANGED << nu_state, old_state, res, steps, data, frame_read >>
  /\ UNCHANGED << device, report >>

\* `while self.running:` `data = self.state`, for the frames below limit
LoopTopWithin(limit) ==
  /\ pc["loop"] = "top"
  /\ running => frame < limit
  /\ IF running
       THEN /\ data' = state
            /\ Goto("loop", "handle")
       ELSE /\ data' = None
            /\ Goto("loop", "exited")
  /\ UNCHANGED engine
  /\ UNCHANGED << nu_state, old_state, res, steps, frame_read >>
  /\ UNCHANGED << device, report >>

\* the top of the loop (the model counts frames up to MaxFrame)
LoopTop == LoopTopWithin(MaxFrame)

\* what handle() does with the command read at the top of the iteration
LoopOutcome ==
  LET parsed == parse_input(data)
  IN  HandleOutcome(parsed.command, parsed.params, frame, fps)

\* the commands whose animation starts with interior_fade_in, which caches
\* the interior colour in _last_interior
FadesInterior ==
  KeyOf(parse_input(data).command) \in {"LISTENING", "UNKNOWN"}

\* an animation is drawn and nothing else
LoopRender ==
  /\ pc["loop"] = "handle"
  /\ LoopOutcome.act = "render"
  /\ last_interior' = IF FadesInterior THEN TRUE ELSE last_interior
  /\ Goto("loop", "inc")
  /\ UNCHANGED << state, past_states, ignore_next_command, frame, frame_set,
                  running, fps, lock >>
  /\ UNCHANGED << nu_state, old_state, res, steps, data, frame_read >>
  /\ HandleDevice

\* a handle which answers every rollback with rollback(), a single step
LoopRollbackOneStep ==
  /\ pc["loop"] = "handle"
  /\ LoopOutcome.act = "rollback"
  /\ steps' = [steps EXCEPT !["loop"] = 1]
  /\ Goto("loop", "rb_begin")
  /\ UNCHANGED engine
  /\ UNCHANGED << nu_state, old_state, res, data, frame_read >>
  /\ HandleDevice

\* `self.rollback(2)`, `self.rollback()`, rollback_after_frames
LoopRollback ==
  /\ pc["loop"] = "handle"
  /\ LoopOutcome.act = "rollback"
  /\ steps' = [steps EXCEPT !["loop"] = LoopOutcome.k]
  /\ Goto("loop", "rb_begin")
  /\ UNCHANGED engine
  /\ UNCHANGED << nu_state, old_state, res, data, frame_read >>
  /\ HandleDevice

\* `self.ignore_next_command = command`, then `self.rollback()`
LoopIgnoreNext ==
  /\ pc["loop"] = "handle"
  /\ LoopOutcome.act = "ignore_next"
  /\ ignore_next_command' = << parse_input(data).command >>
  /\ steps' = [steps EXCEPT !["loop"] = 1]
  /\ Goto("loop", "rb_begin")
  /\ UNCHANGED << state, past_states, frame, frame_set, running,
                  last_interior, fps, lock >>
  /\ UNCHANGED << nu_state, old_state, res, data, frame_read >>
  /\ HandleDevice

\* `self.ignore_next_command = None`, then `self.rollback()`
LoopIgnoreStop ==
  /\ pc["loop"] = "handle"
  /\ LoopOutcome.act = "ignore_stop"
  /\ ignore_next_command' = None
  /\ steps' = [steps EXCEPT !["loop"] = 1]
  /\ Goto("loop", "rb_begin")
  /\ UNCHANGED << state, past_states, frame, frame_set, running,
                  last_interior, fps, lock >>
  /\ UNCHANGED << nu_state, old_state, res, data, frame_read >>
  /\ HandleDevice

\* a variant of LoopChangeState which enters change_state past the test of
\* the latch
LoopChangeStatePastLatch ==
  /\ pc["loop"] = "handle"
  /\ LoopOutcome.act = "change_state"
  /\ nu_state' = [nu_state EXCEPT !["loop"] = LoopOutcome.nu]
  /\ old_state' = [old_state EXCEPT !["loop"] = state]
  /\ Goto("loop", "cs_cmp")
  /\ UNCHANGED engine
  /\ UNCHANGED << res, steps, data, frame_read >>
  /\ HandleDevice

\* `self.change_state(...)` at the end of fade_off and on the pause timeout
LoopChangeState ==
  /\ pc["loop"] = "handle"
  /\ LoopOutcome.act = "change_state"
  /\ nu_state' = [nu_state EXCEPT !["loop"] = LoopOutcome.nu]
  /\ Goto("loop", "cs_lock")
  /\ UNCHANGED engine
  /\ UNCHANGED << old_state, res, steps, data, frame_read >>
  /\ HandleDevice

\* variant of the final else which goes through change_state('unknown')
LoopUnknownByChangeState ==
  /\ pc["loop"] = "handle"
  /\ LoopOutcome.act = "unknown"
  /\ nu_state' = [nu_state EXCEPT !["loop"] = << COMMANDS.UNKNOWN[1] >>]
  /\ Goto("loop", "cs_lock")
  /\ UNCHANGED engine
  /\ UNCHANGED << old_state, res, steps, data, frame_read >>
  /\ HandleDevice

\* variant of the final else which renders the fallback only
LoopUnknownRenders ==
  /\ pc["loop"] = "handle"
  /\ LoopOutcome.act = "unknown"
  /\ Goto("loop", "inc")
  /\ UNCHANGED engine
  /\ UNCHANGED << nu_state, old_state, res, steps, data, frame_read >>
  /\ HandleDevice

\* the final else: set_state_unknown() -- `self.state = COMMANDS['UNKNOWN'][0]`
LoopUnknown ==
  /\ pc["loop"] = "handle"
  /\ LoopOutcome.act = "unknown"
  /\ state' = << COMMANDS.UNKNOWN[1] >>
  /\ Goto("loop", "inc")
  /\ UNCHANGED << past_states, ignore_next_command, frame, frame_set, running,
                  last_interior, fps, lock >>
  /\ UNCHANGED << nu_state, old_state, res, steps, data, frame_read >>
  /\ HandleDevice

\* handle() raises: `except Exception:` of loop() logs it and loop() returns
LoopRaise ==
  /\ pc["loop"] = "handle"
  /\ LoopOutcome.act = "raise"
  /\ Goto("loop", "crashed")
  /\ UNCHANGED engine
  /\ UNCHANGED << nu_state, old_state, res, steps, data, frame_read >>
  /\ HandleDevice

\* rollback() raised inside handle()
LoopRollbackRaised ==
  /\ pc["loop"] = "raised"
  /\ Goto("loop", "crashed")
  /\ UNCHANGED engine
  /\ UNCHANGED << nu_state, old_state, res, steps, data, frame_read >>
  /\ UNCHANGED << device, report >>

\* `self.frame += 1`: the load of self.frame
LoopIncRead ==
  /\ pc["loop"] = "inc"
  /\ frame_read' = frame
  /\ Goto("loop", "inc_w")
  /\ UNCHANGED engine
  /\ UNCHANGED << nu_state, old_state, res, steps, data >>
  /\ UNCHANGED << device, report >>

\* variant of the store for a counter of fixed width: the sum past the last
\* frame wraps to a negative number, which max(0, .) turns into 0
LoopIncWriteWrapping ==
  /\ pc["loop"] = "inc_w"
  /\ frame' = IF frame_read + 1 >= MaxFrame THEN 0 ELSE frame_read + 1
  /\ frame_read' = 0
  /\ data' = None
  /\ nu_state' = [nu_state EXCEPT !["loop"] = None]
  /\ old_state' = [old_state EXCEPT !["loop"] = None]
  /\ res' = [res EXCEPT !["loop"] = NoResult]
  /\ steps' = [steps EXCEPT !["loop"] = 0]
  /\ Goto("loop", "top")
  /\ UNCHANGED << state, past_states, ignore_next_command, frame_set, running,
                  last_interior, fps, lock >>
  /\ UNCHANGED << device, report >>

\* `self.frame += 1`: the store; `self.frame = max(0, self.frame)`; the
\* locals of handle() go out of scope and the loop sleeps
LoopIncWrite ==
  /\ pc["loop"] = "inc_w"
  /\ frame' = IF frame_read + 1 > 0 THEN frame_read + 1 ELSE 0
  /\ frame_read' = 0
  /\ data' = None
  /\ nu_state' = [nu_state EXCEPT !["loop"] = None]
  /\ old_state' = [old_state EXCEPT !["loop"] = None]
  /\ res' = [res EXCEPT !["loop"] = NoResult]
  /\ steps' = [steps EXCEPT !["loop"] = 0]
  /\ Goto("loop", "top")
  /\ UNCHANGED << state, past_states, ignore_next_command, frame_set, running,
                  last_interior, fps, lock >>
  /\ UNCHANGED << device, report >>

\* ------------------------------------------------------------------------
\* The client: Server.on_state_change and the tests call the engine
\* ------------------------------------------------------------------------

\* response = self.leds.change_state(state)
CallChangeState(s) ==
  /\ pc["client"] = "idle"
  /\ nu_state' = [nu_state EXCEPT !["client"] = s]
  /\ res' = [res EXCEPT !["client"] = NoResult]
  /\ Goto("client", "cs_lock")
  /\ pre' = Snapshot("change_state", s, 0)
  /\ UNCHANGED engine
  /\ UNCHANGED << old_state, steps, data, frame_read >>
  /\ UNCHANGED << device, report >>

\* self.leds.rollback(steps=k)
CallRollback(k) ==
  /\ pc["client"] = "idle"
  /\ steps' = [steps EXCEPT !["client"] = k]
  /\ res' = [res EXCEPT !["client"] = NoResult]
  /\ Goto("client", "rb_begin")
  /\ pre' = Snapshot("rollback", None, k)
  /\ UNCHANGED engine
  /\ UNCHANGED << nu_state, old_state, data, frame_read >>
  /\ UNCHANGED << device, report >>

\* the call returns to the client and its locals go out of scope; an accepted
\* command is now due to be rendered
ClientReturn ==
  /\ pc["client"] = "done"
  /\ Goto("client", "idle")
  /\ nu_state' = [nu_state EXCEPT !["client"] = None]
  /\ old_state' = [old_state EXCEPT !["client"] = None]
  /\ res' = [res EXCEPT !["client"] = NoResult]
  /\ steps' = [steps EXCEPT !["client"] = 0]
  /\ pre' = NoCall
  /\ UNCHANGED engine
  /\ UNCHANGED << data, frame_read >>
  /\ UNCHANGED << device, report >>

\* LEDs.stop()
CallStop ==
  /\ pc["client"] = "idle"
  /\ running' = FALSE
  /\ UNCHANGED << state, past_states, ignore_next_command, frame, frame_set,
                  last_interior, fps, lock >>
  /\ UNCHANGED locals
  /\ UNCHANGED << device, report >>

\* ------------------------------------------------------------------------
\* ApiSpec: the engine is constructed and its methods are called, the render
\* loop is not started (as in TestSolidLights.setup_class)
\* ------------------------------------------------------------------------

\* the configuration used: frames_per_second = 1
ApiInit == Init /\ fps = 1

\* the states the calls choose from
ApiStates == { <<"listening">>, <<"ClientOpened">>, <<"Error">> }

ApiNext ==
  \/ \E s \in ApiStates : CallChangeState(s) /\ UNCHANGED << history, observed >>
  \/ \E k \in 1..MaxSteps : CallRollback(k) /\ UNCHANGED << history, observed >>
  \/ CsLock("client") /\ UNCHANGED ghosts
  \/ CsIgnore("client") /\ UNCHANGED ghosts
  \/ CsCompare("client") /\ UNCHANGED ghosts
  \/ CsCompareAgain("client") /\ UNCHANGED ghosts
  \/ CsAppend("client") /\ UNCHANGED ghosts
  \/ CsSetState("client") /\ UNCHANGED ghosts
  \/ CsSetFrame("client") /\ UNCHANGED ghosts
  \/ CsReturn("client") /\ UNCHANGED ghosts
  \/ CsUnlock("client") /\ UNCHANGED ghosts
  \/ RbBegin("client") /\ UNCHANGED ghosts
  \/ RbPop("client") /\ UNCHANGED ghosts
  \/ RbSetState("client") /\ UNCHANGED ghosts
  \/ RbFirst("client") /\ UNCHANGED ghosts
  \/ RbClear("client") /\ UNCHANGED ghosts
  \/ RbDefault("client") /\ UNCHANGED ghosts
  \/ ClientReturn /\ UNCHANGED << history, observed >>

ApiSpec == ApiInit /\ [][ApiNext]_vars

\* ------------------------------------------------------------------------
\* TestSpec: tests/test_rollback.py -- a fresh engine, a number of distinct
\* states sent one after the other (_add_unique_led_states), then rollbacks
\* ------------------------------------------------------------------------

\* the primary aliases of the commands without arguments, in the order of
\* COMMANDS, which is the order _add_unique_led_states sends them in
TestStateList ==
  << <<"unknown">>, <<"on">>, <<"off">>, <<"ignore_next_command">>,
     <<"ignore_stop">>, <<"listening">>, <<"listening_net">>,
     <<"listening_ap">>, <<"listening_ap_and_net">>,
     <<"listening_findmrbeam">>, <<"ClientOpened">>, <<"ClientClosed">>,
     <<"Error">> >>

\* the test sends states among the first MaxAdded of the list
MaxAdded == 11

\* position of state s in the list
TestIndex(s) == CHOOSE i \in DOMAIN TestStateList : TestStateList[i] = s

\* self.leds.change_state(opt); added_states.append(opt)
\* -- a state further down the list than every state sent before
TestAddState ==
  \E i \in 1..MaxAdded :
    /\ rolled = << >>
    /\ IF my_states = << >> THEN TRUE
       ELSE TestIndex(my_states[Len(my_states)]) < i
    /\ CallChangeState(TestStateList[i])
    /\ my_states' = Append(my_states, TestStateList[i])
    /\ UNCHANGED << pending, rolled, ncalls, last_kind, observed >>

\* self.leds.rollback(steps=k) -- the test records the steps of the first
\* rollback and, when that was rollback(1), of the second
TestRollback ==
  \E k \in 1..MaxSteps :
    /\ CallRollback(k)
    /\ rolled' = IF rolled = << >> \/ rolled = << 1 >> THEN Append(rolled, k)
                 ELSE << 0 >>
    /\ UNCHANGED << pending, my_states, ncalls, last_kind, observed >>

TestNext ==
  \/ TestAddState
  \/ TestRollback
  \/ CsLock("client") /\ UNCHANGED ghosts
  \/ CsIgnore("client") /\ UNCHANGED ghosts
  \/ CsCompare("client") /\ UNCHANGED ghosts
  \/ CsCompareAgain("client") /\ UNCHANGED ghosts
  \/ CsAppend("client") /\ UNCHANGED ghosts
  \/ CsSetState("client") /\ UNCHANGED ghosts
  \/ CsSetFrame("client") /\ UNCHANGED ghosts
  \/ CsReturn("client") /\ UNCHANGED ghosts
  \/ CsUnlock("client") /\ UNCHANGED ghosts
  \/ RbBegin("client") /\ UNCHANGED ghosts
  \/ RbPop("client") /\ UNCHANGED ghosts
  \/ RbSetState("client") /\ UNCHANGED ghosts
  \/ RbFirst("client") /\ UNCHANGED ghosts
  \/ RbClear("client") /\ UNCHANGED ghosts
  \/ RbDefault("client") /\ UNCHANGED ghosts
  \/ ClientReturn /\ UNCHANGED << history, observed >>

TestSpec == ApiInit /\ [][TestNext]_vars

\* ------------------------------------------------------------------------
\* The server with its two threads: the command-ingress thread calls
\* change_state (Server.on_state_change) while the thread started by
\* Server.start runs LEDs.loop
\* ------------------------------------------------------------------------

\* the client has no call under way / the loop is between two iterations
ClientIdle == pc["client"] = "idle"
LoopIdle   == pc["loop"] \in {"init", "top", "exited", "crashed"}

\* a command arrives: self.leds.change_state(s); it supersedes the command
\* accepted before
ClientSend(s) ==
  /\ ncalls < MaxCalls
  /\ CallChangeState(s)
  /\ ncalls' = ncalls + 1
  /\ pending' = None
  /\ UNCHANGED << my_states, rolled, last_kind, observed >>

\* rollback called from outside the loop, as the tests do
ClientRollback(k) ==
  /\ ncalls < MaxCalls
  /\ CallRollback(k)
  /\ ncalls' = ncalls + 1
  /\ pending' = None
  /\ UNCHANGED << my_states, rolled, last_kind, observed >>

\* the call returns: a command answered with OK which no iteration of the
\* loop has read yet is due to be rendered by the next iteration
ClientDone ==
  /\ ClientReturn
  /\ pending' = IF pre.call # "change_state" \/ pre.read THEN None
                ELSE IF res["client"].kind = "OK" THEN nu_state["client"]
                ELSE IF res["client"].kind = "IGNORED" THEN pending
                ELSE None
  /\ last_kind' = IF pre.call = "change_state" THEN res["client"].kind ELSE last_kind
  /\ UNCHANGED << my_states, rolled, ncalls, observed >>

\* LEDLoopTester.teardown_class: self.leds.stop()
ClientStop ==
  /\ CallStop
  /\ stopped' = TRUE
  /\ UNCHANGED << pre, history, iter >>

\* the client's change_state call has got past the assignment of self.state
\* and self.state is the command of the call
ClientStored ==
  /\ pre.call = "change_state"
  /\ pc["client"] \in {"cs_frame", "cs_ret", "cs_unlock", "done"}
  /\ state = nu_state["client"]

\* what is recorded when an iteration begins
IterationBegin ==
  /\ pending' = None
  /\ pre' = IF running /\ ClientStored THEN [pre EXCEPT !.read = TRUE] ELSE pre
  /\ iter' = IF running THEN AtTop ELSE NoIter
  /\ UNCHANGED << my_states, rolled, ncalls, last_kind, stopped >>

\* an iteration of the loop starts and reads the command to render
LoopIteration ==
  /\ LoopTop
  /\ IterationBegin

\* the same, for the frames up to MaxLongFrame
LongIteration ==
  /\ LoopTopWithin(MaxLongFrame)
  /\ IterationBegin

\* the commands the client sends
ServerStates ==
  { << "ClientOpened" >>, << "ignore_next_command" >>, << "ignore_stop" >>,
    << "rollback" >>, << "red", "1" >>, << "LaserJobFailed" >>,
    << "bogus" >>, << "progress" >> }

\* self.frame is set to 0 while an iteration of the loop is under way
FrameReset ==
  /\ iter' = IF iter.active THEN [iter EXCEPT !.reset = TRUE] ELSE iter
  /\ UNCHANGED << pre, history, stopped >>

\* the iteration of the loop is over
IterationEnd ==
  /\ iter' = NoIter
  /\ UNCHANGED << pre, history, stopped >>

\* the steps inside change_state, rollback and handle, by either thread
MethodSteps ==
  \/ \E t \in Threads : CsLock(t) /\ UNCHANGED ghosts
  \/ \E t \in Threads : CsIgnore(t) /\ UNCHANGED ghosts
  \/ \E t \in Threads : CsCompare(t) /\ UNCHANGED ghosts
  \/ \E t \in Threads : CsCompareAgain(t) /\ UNCHANGED ghosts
  \/ \E t \in Threads : CsAppend(t) /\ UNCHANGED ghosts
  \/ \E t \in Threads : CsSetState(t) /\ UNCHANGED ghosts
  \/ \E t \in Threads : CsSetFrame(t) /\ FrameReset
  \/ \E t \in Threads : CsReturn(t) /\ UNCHANGED ghosts
  \/ \E t \in Threads : CsUnlock(t) /\ UNCHANGED ghosts
  \/ \E t \in Threads : RbBegin(t) /\ UNCHANGED ghosts
  \/ \E t \in Threads : RbPop(t) /\ UNCHANGED ghosts
  \/ \E t \in Threads : RbSetState(t) /\ UNCHANGED ghosts
  \/ \E t \in Threads : RbFirst(t) /\ UNCHANGED ghosts
  \/ \E t \in Threads : RbClear(t) /\ UNCHANGED ghosts
  \/ \E t \in Threads : RbDefault(t) /\ UNCHANGED ghosts
  \/ LoopRender /\ UNCHANGED ghosts
  \/ LoopRollback /\ UNCHANGED ghosts
  \/ LoopIgnoreNext /\ UNCHANGED ghosts
  \/ LoopIgnoreStop /\ UNCHANGED ghosts
  \/ LoopChangeState /\ UNCHANGED ghosts
  \/ LoopUnknown /\ UNCHANGED ghosts
  \/ LoopRaise /\ UNCHANGED ghosts
  \/ LoopIncRead /\ UNCHANGED ghosts
  \/ LoopIncWrite /\ IterationEnd
  \/ ClientDone

\* SerialSpec: the calls of the client fall between the iterations of the
\* loop, neither thread runs while the other is inside a method
SerialNext ==
  \/ LoopIdle /\ \E s \in ServerStates : ClientSend(s)
  \/ LoopIdle /\ \E k \in 1..2 : ClientRollback(k)
  \/ LoopIdle /\ ClientStop
  \/ ClientIdle /\ LoopStart /\ UNCHANGED ghosts
  \/ ClientIdle /\ LoopIteration
  \/ MethodSteps

SerialSpec == Init /\ [][SerialNext]_vars

\* DispatchSpec: a running engine is sent one command, any alias of any
\* command among them (as each round of test_all_commands does), and the
\* loop renders it frame after frame
AllAliases ==
  UNION { { << COMMANDS[key][i] >> : i \in DOMAIN COMMANDS[key] } : key \in DOMAIN COMMANDS }

DispatchStates ==
  AllAliases \cup
  { << "bogus_state" >>, << "red", "1" >>, << "red", "2" >>, << "red", "0" >>,
    << "red", "x" >>, << "progress", "50" >>, << "progress", "x" >>,
    << "png", "colordots.png" >>, << "png", "missing.png" >>,
    << "png", "huge.png" >>, << "png", "narrow.png" >>,
    << "set", "brightness", "100" >>,
    << "color", "255", "0", "0" >>, << "flash_red", "0" >> }

\* the configuration used: the largest frames_per_second
DispatchInit == Init /\ fps = MaxFps

DispatchNext ==
  \/ ncalls = 0 /\ LoopIdle /\ \E s \in DispatchStates : ClientSend(s)
  \/ ncalls = 0 /\ LoopIdle /\ ClientRollback(1)
  \/ ClientIdle /\ LoopStart /\ UNCHANGED ghosts
  \/ ClientIdle /\ LongIteration
  \/ MethodSteps

DispatchSpec == DispatchInit /\ [][DispatchNext]_vars

\* Spec: the two threads interleave freely; stop() is called when the
\* client has made its calls, as teardown_class does after the tests
ThreadStates ==
  { << "ClientOpened" >>, << "ignore_next_command" >>, << "ignore_stop" >>,
    << "rollback" >>, << "LaserJobFailed" >>, << "bogus" >> }

\* the configurations used: the smallest and the largest frames_per_second
ThreadInit == Init /\ fps \in {1, MaxFps}

Next ==
  \/ ncalls < MaxSends /\ \E s \in ThreadStates : ClientSend(s)
  \/ ncalls < MaxSends /\ ClientRollback(1)
  \/ ncalls = MaxSends /\ ClientStop
  \/ LoopStart /\ UNCHANGED ghosts
  \/ LoopIteration
  \/ LoopRollbackRaised /\ UNCHANGED ghosts
  \/ MethodSteps

Spec == ThreadInit /\ [][Next]_vars

\* StripSpec: _set_color and _update are called on a constructed engine, in
\* any order, for an edge LED and an inside LED
StripLeds == { LEDS_RIGHT_BACK[7], 14 }

\* the colours handed over, one of them with a channel beyond 8 bits
StripColors ==
  { Colors.OFF, Colors.WHITE, Colors.RED, Colors.BLUE, Colors.RED2,
    dim_color(Colors.RED, Frac(150, 1)) }

\* a call of _set_color(i, color)
StripSetColor(i, color) ==
  /\ SetColor(i, color)
  /\ handed' = { color }
  /\ pushed' = "no"
  /\ UNCHANGED << engine, locals, ghosts >>
  /\ UNCHANGED << brightness, inside_brightness, edge_brightness, job_progress,
                  setting_res, evaluated >>

\* a call of _update()
StripUpdate ==
  /\ Update
  /\ handed' = {}
  /\ UNCHANGED << engine, locals, ghosts >>
  /\ UNCHANGED << brightness, inside_brightness, edge_brightness, pixels,
                  job_progress, setting_res, evaluated >>

StripInit == Init /\ fps = DEFAULT_FPS

StripNext ==
  \/ \E i \in StripLeds, color \in StripColors : StripSetColor(i, color)
  \/ StripUpdate

StripSpec == StripInit /\ [][StripNext]_vars

\* SettingsSpec: an engine is constructed with a frames_per_second from the
\* configuration and set_setting is called any number of times
ConfigFps == { NoneNum } \cup { Num(n) : n \in (0 - MaxFps)..MaxFps }

SettingNames ==
  UNION { { SETTINGS[k][i] : i \in DOMAIN SETTINGS[k] } : k \in DOMAIN SETTINGS }
    \cup { "nosuch" }

SettingParams ==
  { << >>, << "0" >>, << "1" >>, << "100" >>, << "255" >>, << "300" >>,
    << "-5" >>, << "-4" >>, << "abc" >>, << "2.5" >>, << "off" >>,
    << "on", "1", "2", "3" >>, << "on", "1", "2", "3", "50" >>,
    << "on", "1", "2", "x", "50" >> }

SettingsInit == Constructed /\ \E value \in ConfigFps : fps = FpsSetter(value)

SettingsNext ==
  \E setting \in SettingNames, params \in SettingParams : SetSetting(setting, params)

SettingsSpec == SettingsInit /\ [][SettingsNext]_vars

\* JobSpec: the states of a laser job, as the server sends them one after
\* the other to a running engine; each is rendered for some frames before
\* the next arrives
JobStates ==
  { << "progress", "50" >>, << "progress", "100" >>, << "progress", "x" >>,
    << "Pause" >>, << "PrintPaused" >>, << "PrintResumed" >>,
    << "PrintStarted" >>, << "PrintDone" >>, << "PrintCancelled" >>,
    << "LaserJobDone" >>, << "LaserJobCancelled" >>, << "LaserJobFailed" >>,
    << "slicing_progress", "100" >> }

JobInit == Init /\ fps = MaxFps

\* the steps of change_state and of handle which the states of a job take:
\* none of them is rolled back, ignored or unknown
JobSteps ==
  \/ \E t \in Threads : CsLock(t) /\ UNCHANGED ghosts
  \/ \E t \in Threads : CsIgnore(t) /\ UNCHANGED ghosts
  \/ \E t \in Threads : CsCompare(t) /\ UNCHANGED ghosts
  \/ \E t \in Threads : CsCompareAgain(t) /\ UNCHANGED ghosts
  \/ \E t \in Threads : CsAppend(t) /\ UNCHANGED ghosts
  \/ \E t \in Threads : CsSetState(t) /\ UNCHANGED ghosts
  \/ \E t \in Threads : CsSetFrame(t) /\ FrameReset
  \/ \E t \in Threads : CsReturn(t) /\ UNCHANGED ghosts
  \/ \E t \in Threads : CsUnlock(t) /\ UNCHANGED ghosts
  \/ LoopRender /\ UNCHANGED ghosts
  \/ LoopChangeState /\ UNCHANGED ghosts
  \/ LoopRaise /\ UNCHANGED ghosts
  \/ LoopIncRead /\ UNCHANGED ghosts
  \/ LoopIncWrite /\ IterationEnd
  \/ ClientDone

JobNext ==
  \/ LoopIdle /\ \E s \in JobStates : ClientSend(s)
  \/ ClientIdle /\ LoopStart /\ UNCHANGED ghosts
  \/ ClientIdle /\ LoopIteration
  \/ JobSteps

JobSpec == JobInit /\ [][JobNext]_vars

\* FollowSpec: the states which the loop itself leaves by change_state (the
\* end of fade_off, the pause timeout), sent serially together with
\* 'ignore_next_command' and followed by rollback() calls
FollowStates ==
  { << "LaserJobCancelled" >>, << "LaserJobFailed" >>, << "SlicingFailed" >>,
    << "PrintPausedTimeoutBlock" >>, << "ignore_next_command" >> }

\* the configurations used: the smallest and the largest frames_per_second
FollowInit == Init /\ fps \in {1, MaxFps}

\* the steps of change_state, rollback and handle which these states take
FollowSteps ==
  \/ \E t \in Threads : CsLock(t) /\ UNCHANGED ghosts
  \/ \E t \in Threads : CsIgnore(t) /\ UNCHANGED ghosts
  \/ \E t \in Threads : CsCompare(t) /\ UNCHANGED ghosts
  \/ \E t \in Threads : CsCompareAgain(t) /\ UNCHANGED ghosts
  \/ \E t \in Threads : CsAppend(t) /\ UNCHANGED ghosts
  \/ \E t \in Threads : CsSetState(t) /\ UNCHANGED ghosts
  \/ \E t \in Threads : CsSetFrame(t) /\ FrameReset
  \/ \E t \in Threads : CsReturn(t) /\ UNCHANGED ghosts
  \/ \E t \in Threads : CsUnlock(t) /\ UNCHANGED ghosts
  \/ \E t \in Threads : RbBegin(t) /\ UNCHANGED ghosts
  \/ \E t \in Threads : RbPop(t) /\ UNCHANGED ghosts
  \/ \E t \in Threads : RbSetState(t) /\ UNCHANGED ghosts
  \/ \E t \in Threads : RbDefault(t) /\ UNCHANGED ghosts
  \/ LoopRender /\ UNCHANGED ghosts
  \/ LoopIgnoreNext /\ UNCHANGED ghosts
  \/ LoopChangeState /\ UNCHANGED ghosts
  \/ LoopRaise /\ UNCHANGED ghosts
  \/ LoopIncRead /\ UNCHANGED ghosts
  \/ LoopIncWrite /\ IterationEnd
  \/ ClientDone

FollowNext ==
  \/ LoopIdle /\ \E s \in FollowStates : ClientSend(s)
  \/ LoopIdle /\ ClientRollback(1)
  \/ ClientIdle /\ LoopStart /\ UNCHANGED ghosts
  \/ ClientIdle /\ LoopIteration
  \/ FollowSteps

FollowSpec == FollowInit /\ [][FollowNext]_vars

\* TransientSpec: a state which handle() leaves by itself after some frames
\* is sent to an engine which is in 'listening' or in 'ClientOpened', and
\* the loop renders it until it is left
TransientStates ==
  { << "SettingsUpdated" >>, << "ButtonPressReject" >>,
    << "color", "2", "0", "0" >>, << "color", "0", "255", "0" >>,
    << "flash_color", "2", "0", "0" >>, << "flash_color", "0", "0", "255", "2" >> }

\* the states the transient one arrives in
SteadyStates == { DEFAULT_STATE, << "ClientOpened" >> }

TransientInit == Init /\ fps = MaxFps

\* an iteration of the loop, for the frames up to MaxTransientFrame
TransientIteration ==
  /\ LoopTopWithin(MaxTransientFrame)
  /\ IterationBegin

\* the steps of change_state, rollback and handle which these states take
TransientSteps ==
  \/ \E t \in Threads : CsLock(t) /\ UNCHANGED ghosts
  \/ \E t \in Threads : CsIgnore(t) /\ UNCHANGED ghosts
  \/ \E t \in Threads : CsCompare(t) /\ UNCHANGED ghosts
  \/ \E t \in Threads : CsCompareAgain(t) /\ UNCHANGED ghosts
  \/ \E t \in Threads : CsAppend(t) /\ UNCHANGED ghosts
  \/ \E t \in Threads : CsSetState(t) /\ UNCHANGED ghosts
  \/ \E t \in Threads : CsSetFrame(t) /\ FrameReset
  \/ \E t \in Threads : CsReturn(t) /\ UNCHANGED ghosts
  \/ \E t \in Threads : CsUnlock(t) /\ UNCHANGED ghosts
  \/ \E t \in Threads : RbBegin(t) /\ UNCHANGED ghosts
  \/ \E t \in Threads : RbPop(t) /\ UNCHANGED ghosts
  \/ \E t \in Threads : RbSetState(t) /\ UNCHANGED ghosts
  \/ LoopRender /\ UNCHANGED ghosts
  \/ LoopRollback /\ UNCHANGED ghosts
  \/ LoopIncRead /\ UNCHANGED ghosts
  \/ LoopIncWrite /\ IterationEnd
  \/ ClientDone

TransientNext ==
  \/ ncalls = 0 /\ pc["loop"] = "init" /\ ClientSend(<< "ClientOpened" >>)
  \/ ncalls <= 1 /\ LoopIdle /\ state \in SteadyStates
       /\ \E s \in TransientStates : ClientSend(s)
  \/ ClientIdle /\ LoopStart /\ UNCHANGED ghosts
  \/ ClientIdle /\ TransientIteration
  \/ TransientSteps

TransientSpec == TransientInit /\ [][TransientNext]_vars

\* HelperSpec: the helpers dim_color and LEDs._breath_factor, called on their
\* own with arguments drawn from the ones the animations pass

\* the values of a colour channel tried
ChannelValues == { 0, 1, 2, 127, 128, 200, 254, 255 }

\* 24-bit colours, as int and as the values of the members of Colors
RgbColors ==
  { Color(r, g, b) : r \in ChannelValues, g \in ChannelValues, b \in ChannelValues }
    \cup { Colors[c] : c \in DOMAIN Colors }

\* brightness factors whose products with a channel are exact in binary
\* floating point: 1.0, 0.0, 0.5, 0.25
DimFactors == { Frac(1, 1), Frac(0, 1), Frac(1, 2), Frac(1, 4) }

\* the state_length of breathing and interior_fade_in (2) and of
\* progress_pause (1.5)
StateLengths == { Frac(2, 1), Frac(3, 2) }

\* a call dim_color(color, brightness)
CallDimColor(color, b) ==
  /\ evaluated' = Eval("dim_color", << color, b >>, dim_color(color, b))
  /\ UNCHANGED << engine, locals, ghosts, device, setting_res, handed, pushed >>

\* a call LEDs._breath_factor(frame, state_length * self.fps, state_length)
CallBreathFactor(f, sl) ==
  /\ evaluated' = Eval("_breath_factor", << f, Frac(sl.num * fps, sl.den), sl >>,
                       breath_factor(f, fps, sl))
  /\ UNCHANGED << engine, locals, ghosts, device, setting_res, handed, pushed >>

\* one call is made in each run
HelperNext ==
  \/ evaluated.fn = "" /\ \E color \in RgbColors, b \in DimFactors : CallDimColor(color, b)
  \/ evaluated.fn = "" /\ \E f \in 0..MaxBreathFrame, sl \in StateLengths : CallBreathFactor(f, sl)

HelperSpec == Init /\ [][HelperNext]_vars

\* ------------------------------------------------------------------------
\* Claims about change_state and rollback called on their own
\* ------------------------------------------------------------------------

\* a call of the client has run to its end and has not returned yet
ChangeStateDone == pc["client"] = "done" /\ pre.call = "change_state"
RollbackDone    == pc["client"] = "done" /\ pre.call = "rollback"

\* the last n entries of a sequence
LastN(seq, n) ==
  IF Len(seq) <= n THEN seq ELSE SubSeq(seq, Len(seq) - n + 1, Len(seq))

\* C1: change_state(new) with the latch clear and new different from the
\* current state appends the old state to the back of the history (a full
\* history dropping its oldest entry), makes new the current state, resets
\* frame to 0 and returns OK naming the old and the new state.
C1_ChangeStateTransition ==
  (ChangeStateDone /\ pre.ignore_next_command = None /\ pre.nu # pre.state)
    => /\ past_states = LastN(pre.past_states \o << pre.state >>, MAX_HISTORY)
       /\ state = pre.nu
       /\ frame = 0 /\ frame_set
       /\ res["client"] = Result("OK", pre.nu, pre.state, pre.nu)

C1_Witness ==
  /\ ChangeStateDone
  /\ pre.ignore_next_command = None
  /\ pre.nu # pre.state
  /\ Len(pre.past_states) >= 2
  /\ res["client"].kind = "OK"

\* C2: once change_state(X) has returned an accepted result, the next
\* iteration of the render loop to start reads X as the command to render,
\* however the two threads interleave: the accepted command is not
\* overwritten before it is rendered.
C2_AcceptedCommandRendered ==
  [][(pc["loop"] = "top" /\ pc'["loop"] = "handle" /\ pending # None)
       => data' = pending]_vars

\* a step which writes the current state, the history or the ignore latch
EngineWritten ==
  \/ state' # state
  \/ past_states' # past_states
  \/ ignore_next_command' # ignore_next_command

\* C3: every write of the current state, of the history and of the ignore
\* latch is a step of the thread which holds the lock.
C3_WritesUnderLock ==
  [][EngineWritten => (lock # Free /\ pc'[lock] # pc[lock])]_vars

\* C4: a change_state call made while the ignore latch is set clears the
\* latch, returns IGNORED and leaves the current state, the history and frame
\* as they were; the call after it, the latch being clear, is processed
\* normally.
C4_IgnoreLatchOneShot ==
  /\ (ChangeStateDone /\ pre.ignore_next_command # None)
       => /\ ignore_next_command = None
          /\ res["client"] = Result("IGNORED", pre.nu, pre.state, pre.state)
          /\ state = pre.state
          /\ past_states = pre.past_states
          /\ frame = pre.frame /\ frame_set = pre.frame_set
  /\ (ChangeStateDone /\ last_kind = "IGNORED" /\ pre.ignore_next_command = None)
       => /\ res["client"] = Result("OK", pre.nu, pre.state, pre.nu)
          /\ state = pre.nu
          /\ past_states = IF pre.nu = pre.state THEN pre.past_states
                           ELSE LastN(pre.past_states \o << pre.state >>, MAX_HISTORY)

C4_Witness ==
  /\ ChangeStateDone
  /\ last_kind = "IGNORED"
  /\ pre.ignore_next_command = None
  /\ pre.nu # pre.state
  /\ state = pre.nu
  /\ res["client"].kind = "OK"

\* C5: rollback(k) with 1 <= k <= len(history) removes exactly the k most
\* recent history entries and makes the last one removed the current state;
\* and after N <= 10 distinct change_state calls s1..sN on a fresh engine
\* rollback(1) yields s(N-1) and a further rollback(N-2) yields s1.
C5_RollbackWithinHistory ==
  /\ (RollbackDone /\ pre.k >= 1 /\ pre.k <= Len(pre.past_states))
       => /\ past_states = SubSeq(pre.past_states, 1, Len(pre.past_states) - pre.k)
          /\ state = pre.past_states[Len(pre.past_states) - pre.k + 1]
  /\ (RollbackDone /\ Len(my_states) >= 2 /\ Len(my_states) <= MAX_HISTORY
        /\ rolled = << 1 >>)
       => state = my_states[Len(my_states) - 1]
  /\ (RollbackDone /\ Len(my_states) >= 3 /\ Len(my_states) <= MAX_HISTORY
        /\ rolled = << 1, Len(my_states) - 2 >>)
       => state = my_states[1]

C5_Witness ==
  /\ RollbackDone
  /\ Len(my_states) = MAX_HISTORY
  /\ rolled = << 1, MAX_HISTORY - 2 >>
  /\ pre.k <= Len(pre.past_states)
  /\ state = my_states[1]

\* C6: rollback(steps) with steps greater than the number of history entries
\* makes DEFAULT_STATE the current state and does not raise, whatever calls
\* came before.
C6_StarvedRollbackDefault ==
  /\ pc["client"] # "raised"
  /\ (RollbackDone /\ pre.k > Len(pre.past_states)) => state = DEFAULT_STATE

C8_RollbackNeverRaises ==
  /\ pc["client"] # "raised"
  /\ (RollbackDone /\ pre.past_states = << >>)
       => /\ state = << "listening" >>
          /\ past_states = << >>

C8_Witness ==
  /\ RollbackDone
  /\ pre.past_states = << >>
  /\ pre.state # << "listening" >>
  /\ pre.k > 1
  /\ state = << "listening" >>

\* the transitions of the test so far (a first call naming the state the
\* engine starts in is no transition), and the states that were current
\* before each of them
TestTransitions ==
  IF my_states # << >> /\ my_states[1] = DEFAULT_STATE THEN Tail(my_states)
  ELSE my_states

TestPrevious ==
  IF TestTransitions = << >> THEN << >>
  ELSE << DEFAULT_STATE >> \o SubSeq(TestTransitions, 1, Len(TestTransitions) - 1)

\* C9: the history never holds more than 10 entries, and after more than 10
\* distinct transitions it holds exactly the 10 most recent previous states,
\* in order.
C9_HistoryBound ==
  /\ Len(past_states) <= 10
  /\ (pc["client"] = "idle" /\ rolled = << >> /\ Len(TestTransitions) > 10)
       => /\ past_states = LastN(TestPrevious, 10)
          /\ state = TestTransitions[Len(TestTransitions)]

C9_Witness ==
  /\ pc["client"] = "idle"
  /\ rolled = << >>
  /\ Len(TestTransitions) > 10
  /\ Len(past_states) = 10
  /\ past_states[1] # DEFAULT_STATE

\* C10: change_state(s) with the latch clear while s is the current state
\* changes neither the history, nor the current state, nor frame.
C10_SameStateNoOp ==
  (ChangeStateDone /\ pre.ignore_next_command = None /\ pre.nu = pre.state)
    => /\ past_states = pre.past_states
       /\ state = pre.state
       /\ frame = pre.frame /\ frame_set = pre.frame_set
       /\ res["client"].kind = "OK"

C10_Witness ==
  /\ ChangeStateDone
  /\ pre.nu = pre.state
  /\ Len(pre.past_states) >= 1
  /\ past_states = pre.past_states


\* ------------------------------------------------------------------------
\* dispatch of one frame: handle() as called by loop()
\* ------------------------------------------------------------------------

\* the command and the arguments of the iteration in flight
Dispatched == parse_input(data)

\* the aliases of the entries of COMMANDS_REQ_ARG
RequiresArgs(command) ==
  \E key \in COMMANDS_REQ_ARG : \E i \in DOMAIN COMMANDS[key] : COMMANDS[key][i] = command

\* handle() is entered by the loop and ends in this step
Handled == pc["loop"] = "handle" /\ pc'["loop"] # "handle"

ArgumentsMissing == Dispatched.params = << >>

ArgumentsMalformed ==
  /\ Dispatched.params # << >>
  /\ KeyOf(Dispatched.command) \in COMMANDS_REQ_ARG \ {"PNG_ANIMATION", "BLINK_CUSTOM_COLOR"}
  /\ ~IsInt(Dispatched.params[1])

\* C12: when current_state holds a command with missing or malformed
\* required arguments the render loop does not crash: the iteration that
\* handles it is not the loop's last one.
C12_ArgumentErrorSurvived ==
  (pc["loop"] = "crashed" /\ RequiresArgs(Dispatched.command))
    => ~(ArgumentsMissing \/ ArgumentsMalformed)


\* the primary alias of a command which does not require arguments
PrimaryNoArg(cmd) ==
  /\ Len(cmd) = 1
  /\ \E key \in (DOMAIN COMMANDS) \ COMMANDS_REQ_ARG : cmd[1] = COMMANDS[key][1]

\* C13: for every command that does not require arguments, after
\* change_state(primary alias) no iteration of the render loop for that
\* state, at any frame number, raises an exception that ends the loop.
C13_NoArgCommandKeepsRunning ==
  pc["loop"] = "crashed" => ~PrimaryNoArg(data)


\* the token of the iteration in flight matches no alias of COMMANDS
UnknownToken == KeyOf(Dispatched.command) = "NONE"

UnknownTokenHandled == pc["loop"] = "inc" /\ UnknownToken

\* C15 as stated: after the render loop has handled a token that matches no
\* canonical command, current_state and history are what they were before
\* that iteration.
C15_UnknownTokenKeepsState ==
  UnknownTokenHandled => (state = iter.state /\ past_states = iter.past_states)

\* C15 as amended: after the render loop has handled a token that matches
\* no canonical command (and no call arrived during the iteration),
\* current_state is 'unknown' and the history is what it was before that
\* iteration: the token is replaced, not pushed.
C15_UnknownTokenReplaced ==
  UnknownTokenHandled => (state = << "unknown" >> /\ past_states = iter.past_states)

C15_Witness ==
  /\ UnknownTokenHandled
  /\ iter.state = << "bogus_state" >>
  /\ iter.past_states = << << "listening" >> >>
  /\ past_states = << << "listening" >> >>
  /\ state = << "unknown" >>
  /\ frame = 0


\* the iteration in flight has finished its animation and current_state is
\* no longer the state the iteration started with
IterationChangedState ==
  pc["loop"] = "inc" /\ iter.active /\ state # iter.state

\* C16: every transition of current_state, by change_state, by rollback
\* (called by the client, by a meta-command or by rollback_after_frames) or
\* by the fallback to 'unknown', resets the frame counter to 0.
C16_TransitionResetsFrame ==
  /\ IterationChangedState => frame = 0
  /\ (RollbackDone /\ state # pre.state) => frame = 0


\* the step that ends an iteration of the loop: the store of `self.frame += 1`
IterationEnds == pc["loop"] = "inc_w" /\ pc'["loop"] = "top"

\* C17: the frame counter is never negative, and every iteration of the
\* render loop during which no state transition resets it increases it by
\* exactly 1, also when a no-op or ignored change_state call of the client
\* thread interleaves with the iteration.
C17_FrameCounts ==
  [][ /\ frame' >= 0
      /\ (IterationEnds /\ iter.active /\ ~iter.reset) => frame' = iter.frame + 1 ]_vars

C17_Witness ==
  /\ pc["loop"] = "inc_w"
  /\ iter.active
  /\ ~iter.reset
  /\ iter.frame > 0
  /\ pc["client"] = "cs_unlock"
  /\ res["client"].kind = "IGNORED"


\* the iteration in flight has rendered a static colour whose first argument
\* is the number max_frames handed to rollback_after_frames
TimedColourHandled ==
  /\ pc["loop"] = "inc"
  /\ iter.active
  /\ KeyOf(Dispatched.command) \in StaticColorKeys
  /\ Len(Dispatched.params) >= 1
  /\ IsInt(Dispatched.params[1])

\* the engine after rollback(1) on the engine at the start of the iteration
RolledBackOnce ==
  /\ last_interior = FALSE
  /\ IF Len(iter.past_states) >= 1
       THEN /\ state = iter.past_states[Len(iter.past_states)]
            /\ past_states = SubSeq(iter.past_states, 1, Len(iter.past_states) - 1)
       ELSE /\ state = DEFAULT_STATE
            /\ past_states = << >>

\* C18: rollback_after_frames(frame, max_frames, steps) performs
\* rollback(steps) exactly when max_frames > 0 and frame > max_frames, and
\* otherwise leaves current_state, history and the cached interior colour
\* unchanged: a state 'red:N' with N > 0 stays current while frame <= N and
\* is rolled back in the first iteration with frame > N.
C18_RollbackAfterFrames ==
  TimedColourHandled =>
    LET max_frames == IntTable[Dispatched.params[1]]
    IN  IF max_frames > 0 /\ iter.frame > max_frames
          THEN RolledBackOnce
          ELSE /\ state = iter.state
               /\ past_states = iter.past_states
               /\ last_interior = iter.last_interior

C18_Witness ==
  /\ TimedColourHandled
  /\ data = << "red", "2" >>
  /\ iter.frame = 3
  /\ iter.state = << "red", "2" >>
  /\ state = << "listening" >>
  /\ past_states = << >>


\* a ROLLBACK, IGNORE_NEXT_COMMAND or IGNORE_STOP token
MetaToken(cmd) ==
  \/ StrIn(cmd, COMMANDS.ROLLBACK)
  \/ StrIn(cmd, COMMANDS.IGNORE_NEXT_COMMAND)
  \/ StrIn(cmd, COMMANDS.IGNORE_STOP)

\* the client's change_state call found the latch clear: it went on to
\* `old_state = self.state`
LatchFoundClear == old_state["client"] # None

\* C19 as stated: change_state called with a ROLLBACK, IGNORE_NEXT_COMMAND or
\* IGNORE_STOP token always returns OK, whatever the engine state is at the
\* time of the call, also when the ignore latch is set.
C19_MetaTokenAlwaysOk ==
  (ChangeStateDone /\ MetaToken(pre.nu)) => res["client"].kind = "OK"

\* C19 as amended: change_state called with a ROLLBACK, IGNORE_NEXT_COMMAND
\* or IGNORE_STOP token returns OK whenever it finds the ignore latch clear,
\* whatever else the engine state is (also when the render loop has replaced
\* the state by the time the result is built); when it finds the latch set
\* it returns IGNORED, as for any other token.
C19_MetaTokenAccepted ==
  (ChangeStateDone /\ MetaToken(pre.nu))
    => res["client"].kind = IF LatchFoundClear THEN "OK" ELSE "IGNORED"

C19_Witness ==
  /\ ChangeStateDone
  /\ MetaToken(pre.nu)
  /\ LatchFoundClear
  /\ res["client"].kind = "OK"
  /\ res["client"].state # pre.nu


\* the loop evaluates `while self.running:` in this step
LoopTests == pc["loop"] = "top" /\ pc'["loop"] # "top"

\* C20: after stop() has been called the render loop finds running = false
\* at the top of its next iteration and exits, for every interleaving of
\* stop() with the start of loop(): no iteration begins after a stop() call.
C20_StopObserved ==
  [][ (LoopTests /\ stopped) => pc'["loop"] = "exited" ]_vars


\* the png state of the iteration in flight names a file that load_png does
\* not load: missing, too large or too narrow
PngNotLoaded ==
  /\ KeyOf(Dispatched.command) = "PNG_ANIMATION"
  /\ Dispatched.params # << >>
  /\ LoadPngNone(Dispatched.params[1])

\* C22: when the png state names a file that is missing, too large or
\* narrower than one edge register, the animation is a no-op for that frame:
\* no exception propagates and the render loop keeps running.
C22_PngAssetErrorSurvived ==
  pc["loop"] = "crashed" => ~PngNotLoaded


\* the first token of a command of the settings protocol
IsSetting(cmd) == cmd # None /\ Head(cmd) = "set"

\* C23: a command whose first token is 'set' is applied as a setting; it
\* never becomes current_state and never adds an entry to the rollback
\* history.
C23_SettingNotStored ==
  /\ ~IsSetting(state)
  /\ \A i \in DOMAIN past_states : ~IsSetting(past_states[i])


\* ------------------------------------------------------------------------
\* Claims about the settings
\* ------------------------------------------------------------------------

\* the last call of set_setting named a brightness setting with a first
\* parameter that int() accepts
BrightnessCalled ==
  /\ Zone(setting_res.setting) # "none"
  /\ setting_res.params # << >>
  /\ IsInt(Head(setting_res.params))

\* the attribute which the setter of the zone assigns
StoredBrightness(zone) ==
  IF zone = "brightness" THEN brightness
  ELSE IF zone = "inside" THEN inside_brightness
  ELSE edge_brightness

\* C24: set_brightness, set_inside_brightness and set_edge_brightness parse
\* their input as an integer and clamp it to [0,255]: 300 stores and returns
\* 255, -5 stores and returns 0, and the stored brightness is in [0,255]
\* after every call.
C24_BrightnessClamped ==
  /\ brightness \in 0..255
  /\ inside_brightness \in 0..255
  /\ edge_brightness \in 0..255
  /\ BrightnessCalled =>
       LET n == IntTable[Head(setting_res.params)]
           clamped == IF n < 0 THEN 0 ELSE IF n > 255 THEN 255 ELSE n
       IN  /\ setting_res.kind = "OK"
           /\ setting_res.val = clamped
           /\ StoredBrightness(Zone(setting_res.setting)) = clamped

\* the call of set_setting made in this step names a brightness setting or
\* fps with a first parameter that int() rejects
UnparsableCalled ==
  /\ setting_res' # setting_res
  /\ \/ Zone(setting_res'.setting) # "none"
     \/ InList(setting_res'.setting, SETTINGS.FPS)
  /\ setting_res'.params # << >>
  /\ ~IsInt(Head(setting_res'.params))

\* C25: set_setting with a value that fails to parse (a non-numeric
\* brightness or fps) returns the ERROR response for a value that could not
\* be parsed, no exception escapes set_setting, and the brightness and fps
\* settings keep the values they had.
C25_ParseErrorReported ==
  [][ UnparsableCalled =>
        /\ setting_res'.kind = "PARSE"
        /\ UNCHANGED << brightness, inside_brightness, edge_brightness, fps >>
    ]_vars

\* C28: fps is at least 1 in every reachable state, whatever value was
\* assigned (0, None and negative numbers included), so frame_duration =
\* 1/fps is defined and at most one second.
C28_FpsAtLeastOne ==
  /\ fps >= 1
  /\ frame_duration.defined
  /\ frame_duration.num <= frame_duration.den

\* set_setting was given fps 0 and the engine runs at one frame per second
C28_Witness ==
  /\ setting_res.kind = "OK"
  /\ setting_res.setting = "fps"
  /\ setting_res.params = << "0" >>
  /\ fps = 1
  /\ frame_duration.den = 1


\* ------------------------------------------------------------------------
\* Claims about the strip
\* ------------------------------------------------------------------------

\* C27: every colour an animation hands to the pixel buffer, and every
\* colour the buffer stores, has its R, G and B channels in [0,255]: no
\* dim_color call of an animation (the ramp of ShutdownPrepare, the dimming
\* phase of job-finished and dust-extraction) overflows a channel into its
\* neighbour or beyond 24 bits.
C27_ChannelsInRange ==
  /\ \A color \in handed : IsRgb(color)
  /\ \A i \in Leds : pixels[i] = Unresolved \/ IsRgb(pixels[i])


\* the iteration in flight has drawn the frame of 'progress:50'
ProgressRendered == pc["loop"] = "inc" /\ data = << "progress", "50" >>

\* the colour stored for the LED at position k (from 0) of edge register r
RegisterShows(r, k) == pixels[OUTSIDE_LEDS[r][k + 1]]

\* C29 as claimed: after change_state('progress:50') and rendering frames,
\* each edge register shows half of its LEDs in the done colour, exactly one
\* LED in the drip colour and all remaining LEDs off.
C29_HalfDoneOneDrip ==
  ProgressRendered =>
    \A r \in 1..4 :
      LET done == { k \in 0..6 : RegisterShows(r, k) = Colors.WHITE }
          drip == { k \in 0..6 : RegisterShows(r, k) = Colors.BLUE }
          dark == { k \in 0..6 : RegisterShows(r, k) = Colors.OFF }
      IN  /\ Cardinality(done) \in {3, 4}
          /\ Cardinality(drip) = 1
          /\ done \cup drip \cup dark = 0..6

\* C29: after change_state('progress:50') and rendering frames, each edge
\* register shows its four LEDs at positions 3..6 in the done colour; of the
\* three others the one at position c = round(frame/2) mod 7 is in the drip
\* colour when c < 3, and every other LED is off (no drip LED while c >= 3).
C29_ProgressBar ==
  ProgressRendered =>
    \A r \in 1..4 : \A k \in 0..6 :
      RegisterShows(r, k) =
        IF k >= 3 THEN Colors.WHITE
        ELSE IF k = RoundHalfEven(frame, 2) % 7 THEN Colors.BLUE
        ELSE Colors.OFF

\* the third frame of 'progress:50' is drawn: the drip has moved to the
\* second LED
C29_Witness ==
  /\ ProgressRendered
  /\ frame = 2
  /\ \A r \in 1..4 : RegisterShows(r, 1) = Colors.BLUE /\ RegisterShows(r, 0) = Colors.OFF


\* what clean_exit leaves on the strip: static_color(Colors.RED2), the dim
\* red on every edge LED
ShowsSentinel == \A i \in EdgeLeds : pixels[i] = Colors.RED2

\* C21: an exception raised inside the render loop is caught at the loop
\* boundary and followed by the clean-exit sequence: when the loop has ended
\* on an exception the edge LEDs show the dim red sentinel colour, not the
\* last rendered frame.
C21_CrashShowsSentinel ==
  pc["loop"] = "crashed" => ShowsSentinel


\* C26: a hardware push happens only in a flush that finds the dirty flag
\* true; the dirty flag is false right after every flush; a pixel set marks
\* the buffer dirty and overwrites the stored value only when the colour
\* scaled by the zone brightness differs from the colour stored for that
\* LED.
C26_PushOnlyWhenDirty ==
  [][ /\ pushed' = "yes" => update_required
      /\ handed' = {} => ~update_required'
      /\ handed' # {} =>
           /\ pixels' # pixels => update_required'
           /\ (update_required' /\ ~update_required) => pixels' # pixels
           /\ \A i \in Leds :
                pixels'[i] # pixels[i] =>
                  \E color \in handed' : pixels'[i] = Scaled(i, color)
    ]_vars

\* a pixel was set to red and the flush that followed pushed the buffer
C26_Witness ==
  /\ pushed = "yes"
  /\ handed = {}
  /\ ~update_required
  /\ pixels[LEDS_RIGHT_BACK[7]] = Colors.RED


\* the state the loop handles (at "handle") or has just handled (at "inc")
HandledKey == KeyOf(parse_input(data).command)

\* the states which end a job
JobEndKeys == {"PRINT_DONE", "PRINT_CANCELLED", "LASER_JOB_DONE", "LASER_JOB_CANCELLED"}

\* the states which draw the bar of the progress kept
JobBarKeys == {"PAUSE", "PRINT_PAUSED", "PRINT_RESUMED"}

\* the loop has rendered a frame of Pause, PrintPaused or PrintResumed
JobBarRendered == pc["loop"] = "inc" /\ HandledKey \in JobBarKeys

\* every edge register shows the bar for v percent: the done colour on
\* exactly the positions k with v/100 * 6 >= 6 - k
ShowsBarFor(v) ==
  \A r \in 1..4 : \A k \in 0..6 :
    (RegisterShows(r, k) = Colors.WHITE) <=> (v * 6 >= (6 - k) * 100)

\* C30: the last progress value received through 'progress:v' is retained
\* in job_progress across Pause, PrintPaused and PrintResumed, each of which
\* renders the progress bar for that value; job_progress changes only when
\* a progress state is rendered (to its value) or a job-end state
\* (PrintDone, PrintCancelled, LaserJobDone, LaserJobCancelled) resets it
\* to 0.
C30_ProgressRetained ==
  [][ /\ job_progress' # job_progress =>
           /\ pc["loop"] = "handle"
           /\ \/ HandledKey = "PROGRESS" /\ job_progress' = parse_input(data).params[1]
              \/ HandledKey \in JobEndKeys /\ job_progress' = "0"
      /\ (pc["loop"] = "handle" /\ HandledKey \in JobBarKeys) =>
           job_progress' = job_progress
      /\ (JobBarRendered /\ IsInt(job_progress))' =>
           ShowsBarFor(IntTable[job_progress])'
    ]_vars

\* 'progress:50' was rendered, then the job paused and resumed: PrintResumed
\* is drawn with the upper four LEDs of every register in the done colour
C30_Witness ==
  /\ JobBarRendered
  /\ HandledKey = "PRINT_RESUMED"
  /\ job_progress = "50"
  /\ Len(past_states) >= 2
  /\ ShowsBarFor(50)
  /\ RegisterShows(1, 3) = Colors.WHITE
  /\ RegisterShows(1, 2) # Colors.WHITE

\* ------------------------------------------------------------------------
\* Claims about the helpers
\* ------------------------------------------------------------------------

\* dim_color was called with this brightness
DimCalled(b) == evaluated.fn = "dim_color" /\ evaluated.args[2] = b

\* C31: dim_color(color, 1.0) equals color and dim_color(color, 0.0) equals
\* OFF for every 24-bit RGB colour.
C31_DimColorEnds ==
  /\ DimCalled(Frac(1, 1)) => evaluated.val = evaluated.args[1]
  /\ DimCalled(Frac(0, 1)) => evaluated.val = Colors.OFF

\* yellow dimmed by 0.0 is off
C31_Witness ==
  /\ DimCalled(Frac(0, 1))
  /\ evaluated.args[1] = Colors.YELLOW
  /\ evaluated.val = Colors.OFF

\* C32: _breath_factor(frame, f_count, state_length) returns a value
\* between 0 and 1.0 for every frame >= 0, every fps >= 1 and the
\* state_length 1.5 or 2 with f_count = state_length * fps; it is never
\* negative.
C32_BreathFactorInRange ==
  evaluated.fn = "_breath_factor" =>
    /\ evaluated.val.num >= 0
    /\ evaluated.val.num <= evaluated.val.den

\* ------------------------------------------------------------------------
\* Claims about the history
\* ------------------------------------------------------------------------

\* the client's change_state('rollback') was accepted while the state was
\* another one, the iteration of the loop which began after it had stored the
\* command has read 'rollback' and has finished handling it
RollbackCommandHandled ==
  /\ pre.call = "change_state"
  /\ pre.nu = << "rollback" >>
  /\ pre.state # << "rollback" >>
  /\ pre.ignore_next_command = None
  /\ pre.read
  /\ iter.active
  /\ iter.state = << "rollback" >>
  /\ iter.past_states = Append(pre.past_states, pre.state)
  /\ data = << "rollback" >>
  /\ pc["loop"] = "inc"

C33_WitnessEmpty ==
  /\ RollbackCommandHandled
  /\ pre.past_states = << >>
  /\ state = pre.state

\* C34: in every reachable state, for every interleaving of the client's
\* commands and the render loop, the history contains none of the
\* meta-command tokens 'rollback', 'ignore_next_command' and 'ignore_stop'.
C34_NoMetaInHistory ==
  \A i \in DOMAIN past_states : ~MetaToken(past_states[i])

\* C35: in every reachable state the most recent history entry differs from
\* the current state and no two adjacent history entries are equal, after
\* any sequence of change_state calls, rollbacks and fallbacks to 'unknown'
\* (looked at between the operations, when neither thread is inside one).
C35_HistoryNoRepeats ==
  (ClientIdle /\ LoopIdle) =>
    /\ past_states # << >> => past_states[Len(past_states)] # state
    /\ \A i \in 1..(Len(past_states) - 1) : past_states[i] # past_states[i + 1]

\* ------------------------------------------------------------------------
\* Claims about the transitions made by the render loop
\* ------------------------------------------------------------------------

\* what handle() does at frame f with the command the iteration has read
OutcomeAt(f) ==
  HandleOutcome(parse_input(data).command, parse_input(data).params, f, fps)

\* the iteration which began with the latch set has called change_state
\* itself (at the end of fade_off or on the pause timeout) and is back in
\* handle()
InternalCallUnderLatch ==
  /\ pc["loop"] = "inc"
  /\ iter.active
  /\ iter.ignore_next_command # None
  /\ data = iter.state
  /\ OutcomeAt(iter.frame).act = "change_state"

\* C36: a change_state call made by the render loop while the latch is set
\* is the call that is dropped: the result is IGNORED, state, history and
\* frame are what they were when the iteration began, the latch is clear (so
\* the next command is accepted), and the next iteration makes the same
\* change_state call again.
C36_InternalTransitionDropped ==
  InternalCallUnderLatch =>
    /\ res["loop"].kind = "IGNORED"
    /\ state = iter.state
    /\ past_states = iter.past_states
    /\ frame = iter.frame
    /\ ignore_next_command = None
    /\ OutcomeAt(frame + 1) = OutcomeAt(iter.frame)

\* the transition to 'ClientOpened' at the end of fade_off was dropped
C36_Witness ==
  /\ InternalCallUnderLatch
  /\ iter.state = << "LaserJobFailed" >>
  /\ res["loop"].kind = "IGNORED"
  /\ state = << "LaserJobFailed" >>

\* the transition on the pause timeout was dropped
C36_WitnessTimeout ==
  /\ InternalCallUnderLatch
  /\ iter.state = << "PrintPausedTimeoutBlock" >>
  /\ res["loop"].kind = "IGNORED"

\* the iteration which began in state s has finished handle()
HandledState(s) ==
  /\ pc["loop"] = "inc"
  /\ iter.active
  /\ iter.state = s
  /\ data = s

\* handle() has left the state of the iteration by rollback(1): the state
\* is the one change_state had put on the history when the state of the
\* iteration arrived, that entry is gone, and the frame counter is the one
\* the iteration began with
LeftByRollback ==
  /\ iter.past_states # << >>
  /\ state = iter.past_states[Len(iter.past_states)]
  /\ past_states = SubSeq(iter.past_states, 1, Len(iter.past_states) - 1)
  /\ frame = iter.frame

\* handle() has left state and history as the iteration found them
NotLeft ==
  /\ state = iter.state
  /\ past_states = iter.past_states
  /\ frame = iter.frame

\* C37: with no further command, 'SettingsUpdated' is left by rollback(1) in
\* the first iteration with frame > 50 and 'ButtonPressReject' in the first
\* iteration with frame > fps, and not before; the state is then the one that
\* was current before the transient state, and the frame counter is not
\* reset.
C37_TransientRolledBack ==
  /\ HandledState(<< "SettingsUpdated" >>) =>
        IF iter.frame > 50 THEN LeftByRollback ELSE NotLeft
  /\ HandledState(<< "ButtonPressReject" >>) =>
        IF iter.frame > fps THEN LeftByRollback ELSE NotLeft
  /\ \A s \in { << "SettingsUpdated" >>, << "ButtonPressReject" >> } :
        (pc["loop"] = "top" /\ ClientIdle /\ state = s /\ running) =>
          frame <= (IF s = << "SettingsUpdated" >> THEN 50 ELSE fps) + 1

\* 'SettingsUpdated' arrived in 'ClientOpened' and has been left at frame 51
C37_Witness ==
  /\ HandledState(<< "SettingsUpdated" >>)
  /\ iter.frame = 51
  /\ state = << "ClientOpened" >>
  /\ past_states = << DEFAULT_STATE >>
  /\ frame = 51

\* 'ButtonPressReject' has been left at frame fps + 1
C37_WitnessReject ==
  /\ HandledState(<< "ButtonPressReject" >>)
  /\ iter.frame = fps + 1
  /\ state \in SteadyStates
  /\ frame = fps + 1

\* ------------------------------------------------------------------------
\* Claims about the result of change_state
\* ------------------------------------------------------------------------

\* the client's change_state call, begun with the latch clear, has returned
SerialCallReturned ==
  /\ pc["client"] = "done"
  /\ pre.call = "change_state"
  /\ pre.ignore_next_command = None

\* C38: when no other thread writes the engine state during the call,
\* change_state with the latch clear returns OK for every input string,
\* whether or not its token matches an alias.
C38_SerialCallReturnsOk ==
  SerialCallReturned =>
    /\ res["client"].kind = "OK"
    /\ state = nu_state["client"]

\* a string which matches no alias has been answered with OK
C38_Witness ==
  /\ SerialCallReturned
  /\ nu_state["client"] = << "bogus_state" >>
  /\ KeyOf("bogus_state") = "NONE"
  /\ res["client"].kind = "OK"

\* the ERROR result, which takes a write of the loop during the call
C38_ErrorReturned ==
  /\ pc["client"] = "done"
  /\ pre.call = "change_state"
  /\ res["client"].kind = "ERROR"

\* ------------------------------------------------------------------------
\* Claims about the states which end in fade_off
\* ------------------------------------------------------------------------

FadedStates ==
  { << "LaserJobCancelled" >>, << "LaserJobFailed" >>, << "SlicingFailed" >> }

\* the iteration which began in state s with the latch clear is through with
\* handle(), or handle() has raised
FadeIterationOver(s) ==
  /\ iter.active
  /\ iter.state = s
  /\ iter.ignore_next_command = None
  /\ data = s
  /\ pc["loop"] \in {"inc", "crashed"}

\* C39: the iteration in which the loop processes LaserJobCancelled,
\* LaserJobFailed or SlicingFailed with the latch clear (and no call during
\* it) ends with 'ClientOpened' as the state, the cancelled or failed state as
\* the newest history entry and the frame counter about to become 1; this is
\* so for every such iteration, the one after a rollback to that state
\* included.
C39_FadedStateFollowed ==
  \A s \in FadedStates :
    FadeIterationOver(s) =>
      /\ pc["loop"] = "inc"
      /\ state = << "ClientOpened" >>
      /\ past_states # << >>
      /\ past_states[Len(past_states)] = s
      /\ frame + 1 = 1

\* ------------------------------------------------------------------------
\* Claims about the custom colours
\* ------------------------------------------------------------------------

\* the states 'color:R:G:B' and 'flash_color:R:G:B[:len]' which are sent
CustomColorStates ==
  { s \in TransientStates : s[1] \in { "color", "flash_color" } }

\* the first argument of such a state: the red channel
FirstArg(s) == IntTable[s[2]]

\* C40: for 'color:R:G:B' and 'flash_color:R:G:B[:len]' the frame limit is
\* the red channel R: with R > 0 the state is left by rollback(1) in the
\* first iteration with frame > R and not before, with R = 0 it is never
\* left by the loop.
C40_RedChannelIsFrameLimit ==
  \A s \in CustomColorStates :
    /\ HandledState(s) =>
          IF FirstArg(s) > 0 /\ iter.frame > FirstArg(s) THEN LeftByRollback ELSE NotLeft
    /\ (pc["loop"] = "top" /\ ClientIdle /\ state = s /\ running /\ FirstArg(s) > 0) =>
          frame <= FirstArg(s) + 1

\* 'color:2:0:0' arrived in 'ClientOpened' and has been left at frame 3
C40_Witness ==
  /\ HandledState(<< "color", "2", "0", "0" >>)
  /\ iter.frame = 3
  /\ state = << "ClientOpened" >>
  /\ past_states = << DEFAULT_STATE >>

\* 'flash_color:2:0:0' has been left at frame 3
C40_WitnessFlash ==
  /\ HandledState(<< "flash_color", "2", "0", "0" >>)
  /\ iter.frame = 3
  /\ state \in SteadyStates

\* 'color:0:255:0' is still the state at the last frame followed
C40_WitnessNever ==
  /\ HandledState(<< "color", "0", "255", "0" >>)
  /\ iter.frame = MaxTransientFrame - 1
  /\ state = << "color", "0", "255", "0" >>

=============================================================================
